---- MODULE Spec2Model ----
(***************************************************************************)
(* NaturalDB: sanitization, per-path reader/writer locks, the file system  *)
(* adapter, the storage hierarchy and the CRUD face of the query engine.   *)
(*                                                                         *)
(* Strings are sequences of one-character strings, so that filtering,      *)
(* truncation, concatenation and suffix tests are computed character by    *)
(* character as the Python code computes them.                             *)
(***************************************************************************)
EXTENDS Integers, Sequences, FiniteSets, TLC

VARIABLES
    sanIn,      \* SpecSan: the raw identifier handed to an entity constructor
    sanOut,     \* SpecSan: _check_and_sanitize(sanIn), or NotYet
    sanTwice,   \* SpecSan: _check_and_sanitize(sanOut), or NotYet
    sanPc,      \* SpecSan: "in" -> "once" -> "twice"
    dirs,       \* the directories on disk (resolved paths)
    files,      \* the files on disk: resolved path -> text
    locks,      \* LockManager._locks: path string -> [readers, writer]
    pc,         \* per thread: position inside the FileSystem call it runs
    op,         \* per thread: the FileSystem call it runs and its arguments
    result,     \* per thread: what its last FileSystem call returned or raised
    completed,  \* history: resolved path -> texts whose write has finished
    last,       \* SpecDB: the last engine or storage call, with what it returned
    expect,     \* history: <<table, id>> -> data saved and not deleted since
    fresh,      \* history: <<table, id>> -> data inserted, id not targeted since
    gone,       \* history: the <<table, id>> deleted and not inserted since
    raw,        \* SpecPath: the raw user id, database name, table name, record id
    built,      \* SpecPath: the path the storage layer built last, and for what
    opsIn,      \* SpecOps: the record lists and arguments of a query operation
    opsOut,     \* SpecOps: the operation applied last and what it returned
    heap,       \* SpecChain: the TableQuery objects, each the value of its _records
    chain,      \* SpecChain: the builder call made last, and what it returned
    jsonIn,     \* SpecCodec: the value handed to the writer, or the text handed to the parser
    jsonOut,    \* SpecCodec: the text written and the outcome of parsing
    executor,   \* SpecExec: the FunctionExecutor, by its confirmation callback
    reply,      \* SpecExec: the call executed last and the dictionary it returned
    calls       \* SpecRace: per thread, the engine call it runs, its position and what it returned

sanVars == <<sanIn, sanOut, sanTwice, sanPc>>

diskVars == <<dirs, files>>

threadVars == <<locks, pc, op, result, completed>>

dbVars == <<last, expect, fresh, gone>>

pathVars == <<raw, built>>

opsVars == <<opsIn, opsOut>>

chainVars == <<heap, chain>>

codecVars == <<jsonIn, jsonOut>>

execVars == <<executor, reply>>

raceVars == <<calls>>

vars == <<sanIn, sanOut, sanTwice, sanPc, dirs, files, locks, pc, op, result, completed,
          last, expect, fresh, gone, raw, built, opsIn, opsOut,
          heap, chain,
          jsonIn, jsonOut,
          executor, reply,
          calls>>

NotYet == <<"?">>

(***************************************************************************)
(* Bounds                                                                  *)
(***************************************************************************)
\* longest prefix of freely chosen characters in a raw identifier
MaxPrefix == 2

(***************************************************************************)
(* Strings                                                                 *)
(***************************************************************************)
RECURSIVE Rep(_, _)
Rep(c, n) == IF n <= 0 THEN <<>> ELSE <<c>> \o Rep(c, n - 1)

RECURSIVE SeqsUpTo(_, _)
SeqsUpTo(S, n) ==
    IF n = 0 THEN {<<>>}
    ELSE LET shorter == SeqsUpTo(S, n - 1)
         IN  shorter \cup {Append(s, c) : s \in shorter, c \in S}

Prefix(s, n) == IF Len(s) <= n THEN s ELSE SubSeq(s, 1, n)

\* str.endswith
EndsWith(s, suf) ==
    /\ Len(s) >= Len(suf)
    /\ SubSeq(s, Len(s) - Len(suf) + 1, Len(s)) = suf

\* the alphanumeric characters (lower case letters and digits)
Alnum ==
    {"a", "b", "c", "d", "e", "f", "g", "h", "i", "j", "k", "l", "m",
     "n", "o", "p", "q", "r", "s", "t", "u", "v", "w", "x", "y", "z",
     "0", "1", "2", "3", "4", "5", "6", "7", "8", "9"}

\* the characters sanitization keeps
AllowedChars == Alnum \cup {" ", "_", "-"}

\* three characters that are unsafe in a path
UnsafeChars == {"/", ".", "@"}

\* characters the raw identifiers are drawn from
NameChars == {"a", "m", "7", " ", "_", "-"} \cup UnsafeChars

(***************************************************************************)
(* Sanitization                                                            *)
(***************************************************************************)
MAX_NAME_LENGTH == 80

\* sanitize_name: keep alphanumerics, space, underscore, hyphen; strip the rest
sanitize_name(name) == SelectSeq(name, LAMBDA c : c \in AllowedChars)

\* _check_and_sanitize without the length cap
CheckAndSanitizeNoCap(value) == sanitize_name(value)

\* entities._check_and_sanitize: sanitize, then truncate to MAX_NAME_LENGTH
\* (the two log calls have no effect on the result)
CheckAndSanitize(value) ==
    LET s == sanitize_name(value)
    IN  IF Len(s) > MAX_NAME_LENGTH THEN SubSeq(s, 1, MAX_NAME_LENGTH) ELSE s

(***************************************************************************)
(* SpecSan: an entity constructor sanitizes a raw identifier, and the      *)
(* sanitized identifier is sanitized again when an entity is rebuilt from  *)
(* it (Table(name=table.name), Record(id=record_id)).                      *)
(***************************************************************************)
LongLens == {0, MAX_NAME_LENGTH - 1, MAX_NAME_LENGTH, MAX_NAME_LENGTH + 1}

SanInputs ==
    {p \o Rep(c, n) \o q :
        p \in SeqsUpTo(NameChars, MaxPrefix), c \in {"a", "/"}, n \in LongLens,
        q \in SeqsUpTo({" ", "m"}, 1)}

SanInit ==
    /\ sanIn \in SanInputs
    /\ sanOut = NotYet
    /\ sanTwice = NotYet
    /\ sanPc = "in"
    /\ dirs = {}
    /\ files = <<>>
    /\ locks = <<>>
    /\ pc = <<>>
    /\ op = <<>>
    /\ result = <<>>
    /\ completed = <<>>
    /\ last = <<>>
    /\ expect = <<>>
    /\ fresh = <<>>
    /\ gone = {}
    /\ raw = <<>>
    /\ built = <<>>
    /\ opsIn = <<>>
    /\ opsOut = <<>>
    /\ heap = <<>>
    /\ chain = <<>>
    /\ jsonIn = <<>>
    /\ jsonOut = <<>>
    /\ executor = <<>>
    /\ reply = <<>>
    /\ calls = <<>>

SanitizeOnce ==
    /\ sanPc = "in"
    /\ sanOut' = CheckAndSanitize(sanIn)
    /\ sanPc' = "once"
    /\ UNCHANGED <<sanIn, sanTwice>>
    /\ UNCHANGED <<diskVars, threadVars, dbVars, pathVars, opsVars, chainVars, codecVars, execVars, raceVars>>

SanitizeTwice ==
    /\ sanPc = "once"
    /\ sanTwice' = CheckAndSanitize(sanOut)
    /\ sanPc' = "twice"
    /\ UNCHANGED <<sanIn, sanOut>>
    /\ UNCHANGED <<diskVars, threadVars, dbVars, pathVars, opsVars, chainVars, codecVars, execVars, raceVars>>

SanNext == SanitizeOnce \/ SanitizeTwice

SpecSan == SanInit /\ [][SanNext]_vars

\* C9: sanitization is idempotent, its result contains only alphanumerics,
\* spaces, underscores and hyphens (so no '/' and no '..'), and its length
\* never exceeds MAX_NAME_LENGTH (80).
SanitizeIdempotentClosed ==
    /\ sanPc \in {"once", "twice"} =>
          /\ \A i \in 1..Len(sanOut) : sanOut[i] \in AllowedChars
          /\ \A i \in 1..Len(sanOut) : sanOut[i] # "/"
          /\ \A i \in 1..(Len(sanOut) - 1) : ~(sanOut[i] = "." /\ sanOut[i + 1] = ".")
          /\ Len(sanOut) <= MAX_NAME_LENGTH
    /\ sanPc = "twice" => sanTwice = sanOut

\* a raw identifier with unsafe characters and more than MAX_NAME_LENGTH safe
\* ones has been sanitized twice: both the stripping and the cap have acted
SanitizeIdempotentClosedWitness ==
    /\ sanPc = "twice"
    /\ Len(sanIn) > MAX_NAME_LENGTH + 1
    /\ \E i \in 1..Len(sanIn) : sanIn[i] \in UnsafeChars
    /\ Len(sanitize_name(sanIn)) > MAX_NAME_LENGTH
    /\ Len(sanOut) = MAX_NAME_LENGTH

(***************************************************************************)
(* The JSON codec (query_engine/json_parser.py)                            *)
(*                                                                         *)
(* A Python value is a record with the same fields whatever its type:      *)
(*   t     "null" | "true" | "false" | "int" | "float" | "str" | "list" |  *)
(*         "dict"                                                          *)
(*   n, e  the integer of an int (e = 0); a float is n * 10^e with n not   *)
(*         divisible by 10, and 0.0 is n = 0, e = 0                        *)
(*   s     the characters of a str                                         *)
(*   keys  the keys of a dict, in insertion order                          *)
(*   kids  the elements of a list, or the values of a dict in key order    *)
(* Text positions are 1-based: position p here is index p - 1 in Python.   *)
(* A character is a one-character string; the two control characters that  *)
(* have no TLA+ escape are written "<08>" (backspace) and "<01>" (U+0001). *)
(***************************************************************************)
JNull == [t |-> "null", n |-> 0, e |-> 0, s |-> <<>>, keys |-> <<>>, kids |-> <<>>]
JTrue == [t |-> "true", n |-> 0, e |-> 0, s |-> <<>>, keys |-> <<>>, kids |-> <<>>]
JFalse == [t |-> "false", n |-> 0, e |-> 0, s |-> <<>>, keys |-> <<>>, kids |-> <<>>]
JInt(i) == [t |-> "int", n |-> i, e |-> 0, s |-> <<>>, keys |-> <<>>, kids |-> <<>>]
JStr(str) == [t |-> "str", n |-> 0, e |-> 0, s |-> str, keys |-> <<>>, kids |-> <<>>]
JList(items) == [t |-> "list", n |-> 0, e |-> 0, s |-> <<>>, keys |-> <<>>, kids |-> items]
JDict(ks, vs) == [t |-> "dict", n |-> 0, e |-> 0, s |-> <<>>, keys |-> ks, kids |-> vs]

\* a float from a decimal mantissa and exponent, normalised
RECURSIVE JFloat(_, _)
JFloat(m, x) ==
    IF m = 0 THEN [t |-> "float", n |-> 0, e |-> 0, s |-> <<>>, keys |-> <<>>, kids |-> <<>>]
    ELSE IF m % 10 = 0 THEN JFloat(m \div 10, x + 1)
    ELSE [t |-> "float", n |-> m, e |-> x, s |-> <<>>, keys |-> <<>>, kids |-> <<>>]

\* float('nan'), float('inf') and float('-inf'), each by the text str() gives it
JNaN == [t |-> "float", n |-> 0, e |-> 0, s |-> <<"n", "a", "n">>, keys |-> <<>>, kids |-> <<>>]
JInf == [t |-> "float", n |-> 0, e |-> 0, s |-> <<"i", "n", "f">>, keys |-> <<>>, kids |-> <<>>]
JNegInf ==
    [t |-> "float", n |-> 0, e |-> 0, s |-> <<"-", "i", "n", "f">>, keys |-> <<>>, kids |-> <<>>]

BS == "<08>"
SOH == "<01>"

Digits == <<"0", "1", "2", "3", "4", "5", "6", "7", "8", "9">>

IsDigit(c) == \E d \in 1..10 : Digits[d] = c

DigitValue(c) == (CHOOSE d \in 1..10 : Digits[d] = c) - 1

RECURSIVE NatToStr(_)
NatToStr(i) == IF i < 10 THEN <<Digits[i + 1]>> ELSE NatToStr(i \div 10) \o <<Digits[(i % 10) + 1]>>

\* str(obj) of an int
IntToStr(i) == IF i < 0 THEN <<"-">> \o NatToStr(0 - i) ELSE NatToStr(i)

\* str(obj) of a float: repr prints the shortest digits, in fixed notation
\* when the decimal point position is in -3..16 and with an exponent otherwise
FiniteToStr(f) ==
    LET neg == f.n < 0
        d == NatToStr(IF neg THEN 0 - f.n ELSE f.n)
        k == Len(d)
        decpt == IF f.n = 0 THEN 1 ELSE k + f.e
        x == decpt - 1
        body ==
            IF -4 < decpt /\ decpt <= 16
            THEN IF decpt <= 0 THEN <<"0", ".">> \o Rep("0", 0 - decpt) \o d
                 ELSE IF decpt >= k THEN d \o Rep("0", decpt - k) \o <<".", "0">>
                 ELSE SubSeq(d, 1, decpt) \o <<".">> \o SubSeq(d, decpt + 1, k)
            ELSE <<d[1]>> \o (IF k > 1 THEN <<".">> \o SubSeq(d, 2, k) ELSE <<>>)
                 \o <<"e", IF x < 0 THEN "-" ELSE "+">>
                 \o (LET a == NatToStr(IF x < 0 THEN 0 - x ELSE x)
                     IN  IF Len(a) < 2 THEN <<"0">> \o a ELSE a)
    IN  (IF neg THEN <<"-">> ELSE <<>>) \o body

\* str(obj) of a float; nan, inf and -inf print as just that
FloatToStr(f) == IF f.s # <<>> THEN f.s ELSE FiniteToStr(f)

\* the escapes _build_string writes with a letter
EscapeLetter(c) ==
    CASE c = "\"" -> "\""
      [] c = "\\" -> "\\"
      [] c = BS -> "b"
      [] c = "\f" -> "f"
      [] c = "\n" -> "n"
      [] c = "\r" -> "r"
      [] c = "\t" -> "t"
      [] OTHER -> ""

\* ord(char) of the control characters without a letter escape
ControlCode(c) == IF c = SOH THEN 1 ELSE 0 - 1

HexDigits == <<"0", "1", "2", "3", "4", "5", "6", "7", "8", "9", "a", "b", "c", "d", "e", "f">>

\* f'\\u{ord(char):04x}'
UEscape(code) ==
    <<"\\", "u", HexDigits[((code \div 4096) % 16) + 1], HexDigits[((code \div 256) % 16) + 1],
      HexDigits[((code \div 16) % 16) + 1], HexDigits[(code % 16) + 1]>>

\* _JSONStringBuilder._build_string
RECURSIVE BuildChars(_, _)
BuildChars(str, i) ==
    IF i > Len(str) THEN <<>>
    ELSE (IF EscapeLetter(str[i]) # "" THEN <<"\\", EscapeLetter(str[i])>>
          ELSE IF ControlCode(str[i]) >= 0 THEN UEscape(ControlCode(str[i]))
          ELSE <<str[i]>>)
         \o BuildChars(str, i + 1)

build_string(str) == <<"\"">> \o BuildChars(str, 1) \o <<"\"">>

\* ','.join(items) and ',\n'.join(items)
RECURSIVE Join(_, _, _)
Join(items, sep, i) ==
    IF i > Len(items) THEN <<>>
    ELSE IF i = Len(items) THEN items[i]
    ELSE items[i] \o sep \o Join(items, sep, i + 1)

\* indent: None
NoIndent == 0 - 1

\* _JSONStringBuilder._build_value, _build_array and _build_object
RECURSIVE build_value(_, _, _)
build_value(obj, depth, indent) ==
    CASE obj.t = "null" -> <<"n", "u", "l", "l">>
      [] obj.t = "true" -> <<"t", "r", "u", "e">>
      [] obj.t = "false" -> <<"f", "a", "l", "s", "e">>
      [] obj.t = "str" -> build_string(obj.s)
      [] obj.t = "int" -> IntToStr(obj.n)
      [] obj.t = "float" -> FloatToStr(obj)
      [] obj.t = "list" ->
            IF obj.kids = <<>> THEN <<"[", "]">>
            ELSE IF indent = NoIndent
            THEN <<"[">>
                 \o Join([i \in 1..Len(obj.kids) |-> build_value(obj.kids[i], depth, indent)],
                         <<",">>, 1)
                 \o <<"]">>
            ELSE <<"[", "\n">>
                 \o Join([i \in 1..Len(obj.kids) |->
                            Rep(" ", (depth + 1) * indent)
                            \o build_value(obj.kids[i], depth + 1, indent)],
                         <<",", "\n">>, 1)
                 \o <<"\n">> \o Rep(" ", depth * indent) \o <<"]">>
      [] obj.t = "dict" ->
            IF obj.keys = <<>> THEN <<"{", "}">>
            ELSE IF indent = NoIndent
            THEN <<"{">>
                 \o Join([i \in 1..Len(obj.keys) |->
                            build_string(obj.keys[i]) \o <<":">>
                            \o build_value(obj.kids[i], depth, indent)],
                         <<",">>, 1)
                 \o <<"}">>
            ELSE <<"{", "\n">>
                 \o Join([i \in 1..Len(obj.keys) |->
                            Rep(" ", (depth + 1) * indent)
                            \o build_string(obj.keys[i]) \o <<":", " ">>
                            \o build_value(obj.kids[i], depth + 1, indent)],
                         <<",", "\n">>, 1)
                 \o <<"\n">> \o Rep(" ", depth * indent) \o <<"}">>

\* JSONParser.to_json_string
to_json_string(obj, indent) == build_value(obj, 0, indent)

\* a parser step: a value and the position after it, or a JSONParserError
Parsed(v, pos) == [ok |-> TRUE, v |-> v, pos |-> pos]
ParseError(pos) == [ok |-> FALSE, v |-> JNull, pos |-> pos]

\* _JSONStringParser._skip_whitespace
RECURSIVE skip_whitespace(_, _)
skip_whitespace(text, pos) ==
    IF pos <= Len(text) /\ text[pos] \in {" ", "\t", "\n", "\r"}
    THEN skip_whitespace(text, pos + 1)
    ELSE pos

\* the characters the letter escapes of _parse_string stand for
Unescape(c) ==
    CASE c = "\"" -> "\""
      [] c = "\\" -> "\\"
      [] c = "/" -> "/"
      [] c = "b" -> BS
      [] c = "f" -> "\f"
      [] c = "n" -> "\n"
      [] c = "r" -> "\r"
      [] c = "t" -> "\t"
      [] OTHER -> ""

HexValue(c) ==
    IF \E d \in 1..16 : HexDigits[d] = c THEN (CHOOSE d \in 1..16 : HexDigits[d] = c) - 1
    ELSE IF c \in {"A", "B", "C", "D", "E", "F"}
         THEN CASE c = "A" -> 10 [] c = "B" -> 11 [] c = "C" -> 12
                [] c = "D" -> 13 [] c = "E" -> 14 [] c = "F" -> 15
    ELSE 0 - 1

\* str.strip() of the characters modelled
RECURSIVE LStrip(_)
LStrip(text) ==
    IF text # <<>> /\ text[1] \in {" ", "\t", "\n", "\r", "\f"}
    THEN LStrip(SubSeq(text, 2, Len(text))) ELSE text

RECURSIVE RStrip(_)
RStrip(text) ==
    IF text # <<>> /\ text[Len(text)] \in {" ", "\t", "\n", "\r", "\f"}
    THEN RStrip(SubSeq(text, 1, Len(text) - 1)) ELSE text

\* int(hex_digits, 16), -1 for a ValueError.  As int() does, it strips
\* whitespace, takes a sign, takes a 0x prefix (and one underscore after it)
\* and single underscores between digits.
HexStrip(h) == RStrip(LStrip(h))

HexUnsigned(h) == IF h # <<>> /\ h[1] \in {"+", "-"} THEN Tail(h) ELSE h

HexAfterPrefix(h) == IF h # <<>> /\ h[1] = "_" THEN Tail(h) ELSE h

HexUnprefixed(h) ==
    IF Len(h) >= 2 /\ h[1] = "0" /\ h[2] \in {"x", "X"}
    THEN HexAfterPrefix(SubSeq(h, 3, Len(h))) ELSE h

HexWellFormed(d) ==
    /\ d # <<>>
    /\ \A i \in 1..Len(d) : HexValue(d[i]) >= 0 \/ d[i] = "_"
    /\ d[1] # "_" /\ d[Len(d)] # "_"
    /\ \A i \in 1..(Len(d) - 1) : ~(d[i] = "_" /\ d[i + 1] = "_")

RECURSIVE HexFold(_, _, _)
HexFold(d, i, acc) ==
    IF i > Len(d) THEN acc
    ELSE HexFold(d, i + 1, IF d[i] = "_" THEN acc ELSE acc * 16 + HexValue(d[i]))

HexDigitsOf(h) == HexUnprefixed(HexUnsigned(HexStrip(h)))

HexNegative(h) == HexStrip(h) # <<>> /\ HexStrip(h)[1] = "-"

\* int(hex_digits, 16) followed by chr(code_point): a negative code point is
\* a ValueError of chr, which the same except clause catches
Hex4(h) ==
    IF ~HexWellFormed(HexDigitsOf(h)) THEN 0 - 1
    ELSE IF HexNegative(h) /\ HexFold(HexDigitsOf(h), 1, 0) > 0 THEN 0 - 1
    ELSE HexFold(HexDigitsOf(h), 1, 0)

\* chr(code_point) for the code points of the characters modelled
Chr(code) ==
    CASE code = 1 -> SOH
      [] code = 8 -> BS
      [] code = 9 -> "\t"
      [] code = 10 -> "\n"
      [] code = 12 -> "\f"
      [] code = 13 -> "\r"
      [] code = 32 -> " "
      [] code = 34 -> "\""
      [] code = 47 -> "/"
      [] code = 92 -> "\\"
      [] code = 97 -> "a"
      [] OTHER -> "<?>"

\* _JSONStringParser._parse_string; pos is the position after the opening quote
RECURSIVE StringLoop(_, _, _)
StringLoop(text, pos, acc) ==
    IF pos > Len(text) THEN ParseError(pos)
    ELSE IF text[pos] = "\"" THEN Parsed(JStr(acc), pos + 1)
    ELSE IF text[pos] = "\\"
         THEN IF pos + 1 > Len(text) THEN ParseError(pos + 1)
              ELSE IF text[pos + 1] = "u"
                   THEN IF pos + 5 > Len(text) \/ Hex4(SubSeq(text, pos + 2, pos + 5)) < 0
                        THEN ParseError(pos + 1)
                        ELSE StringLoop(text, pos + 6,
                                        Append(acc, Chr(Hex4(SubSeq(text, pos + 2, pos + 5)))))
              ELSE IF Unescape(text[pos + 1]) = "" THEN ParseError(pos + 1)
              ELSE StringLoop(text, pos + 2, Append(acc, Unescape(text[pos + 1])))
    ELSE StringLoop(text, pos + 1, Append(acc, text[pos]))

parse_string_token(text, pos) ==
    IF pos > Len(text) \/ text[pos] # "\"" THEN ParseError(pos)
    ELSE StringLoop(text, pos + 1, <<>>)

RECURSIVE DigitsEnd(_, _)
DigitsEnd(text, pos) ==
    IF pos <= Len(text) /\ IsDigit(text[pos]) THEN DigitsEnd(text, pos + 1) ELSE pos

RECURSIVE StrToNat(_, _, _, _)
StrToNat(text, from, to, acc) ==
    IF from > to THEN acc
    ELSE StrToNat(text, from + 1, to, acc * 10 + DigitValue(text[from]))

\* _JSONStringParser._parse_number, one operator per stage of the scan: the
\* sign, the integer digits, the fraction, the exponent, the conversion
NumberValue(text, neg, first, intEnd, hasFrac, fracEnd, hasExp, expVal, expEnd, intPart) ==
    IF hasFrac \/ hasExp
    THEN Parsed(JFloat((IF neg THEN 0 - 1 ELSE 1)
                       * (IF hasFrac THEN StrToNat(text, intEnd + 1, fracEnd - 1, intPart)
                          ELSE intPart),
                       expVal - (IF hasFrac THEN fracEnd - intEnd - 1 ELSE 0)),
                expEnd)
    ELSE Parsed(JInt((IF neg THEN 0 - 1 ELSE 1) * intPart), expEnd)

NumberExpValue(text, neg, first, intEnd, hasFrac, fracEnd, hasExp, signed, expEnd, expMag) ==
    NumberValue(text, neg, first, intEnd, hasFrac, fracEnd, hasExp,
                IF signed /\ text[fracEnd + 1] = "-" THEN 0 - expMag ELSE expMag,
                expEnd, StrToNat(text, first, intEnd - 1, 0))

NumberExpDigits(text, neg, first, intEnd, hasFrac, fracEnd, hasExp, signed, expFirst, expEnd) ==
    IF hasExp /\ expEnd = expFirst THEN ParseError(expFirst)
    ELSE NumberExpValue(text, neg, first, intEnd, hasFrac, fracEnd, hasExp, signed, expEnd,
                        IF hasExp THEN StrToNat(text, expFirst, expEnd - 1, 0) ELSE 0)

NumberExpSign(text, neg, first, intEnd, hasFrac, fracEnd, hasExp, signed, expFirst) ==
    NumberExpDigits(text, neg, first, intEnd, hasFrac, fracEnd, hasExp, signed, expFirst,
                    IF hasExp THEN DigitsEnd(text, expFirst) ELSE fracEnd)

NumberExp(text, neg, first, intEnd, hasFrac, fracEnd, hasExp, signed) ==
    NumberExpSign(text, neg, first, intEnd, hasFrac, fracEnd, hasExp, signed,
                  IF signed THEN fracEnd + 2 ELSE fracEnd + 1)

NumberExpMark(text, neg, first, intEnd, hasFrac, fracEnd, hasExp) ==
    NumberExp(text, neg, first, intEnd, hasFrac, fracEnd, hasExp,
              hasExp /\ fracEnd + 1 <= Len(text) /\ text[fracEnd + 1] \in {"+", "-"})

NumberFracDigits(text, neg, first, intEnd, hasFrac, fracEnd) ==
    IF hasFrac /\ fracEnd = intEnd + 1 THEN ParseError(fracEnd)
    ELSE NumberExpMark(text, neg, first, intEnd, hasFrac, fracEnd,
                       fracEnd <= Len(text) /\ text[fracEnd] \in {"e", "E"})

NumberFrac(text, neg, first, intEnd, hasFrac) ==
    NumberFracDigits(text, neg, first, intEnd, hasFrac,
                     IF hasFrac THEN DigitsEnd(text, intEnd + 1) ELSE intEnd)

NumberInt(text, neg, first, intEnd) ==
    NumberFrac(text, neg, first, intEnd, intEnd <= Len(text) /\ text[intEnd] = ".")

NumberDigits(text, neg, first) ==
    IF first > Len(text) \/ ~IsDigit(text[first]) THEN ParseError(first)
    ELSE NumberInt(text, neg, first,
                   IF text[first] = "0" THEN first + 1 ELSE DigitsEnd(text, first))

parse_number(text, pos) ==
    NumberDigits(text, text[pos] = "-", IF text[pos] = "-" THEN pos + 1 ELSE pos)

\* _JSONStringParser._parse_literal
parse_literal(text, pos, literal, value) ==
    IF pos + Len(literal) - 1 <= Len(text)
       /\ SubSeq(text, pos, pos + Len(literal) - 1) = literal
    THEN Parsed(value, pos + Len(literal))
    ELSE ParseError(pos)

\* key in data
HasKey(d, key) == \E i \in 1..Len(d.keys) : d.keys[i] = key

\* data[key]
DictItem(d, key) == d.kids[CHOOSE i \in 1..Len(d.keys) : d.keys[i] = key]

\* data.get(key)
DictGet(d, key) == IF HasKey(d, key) THEN DictItem(d, key) ELSE JNull

\* result[key] = value of a Python dict: a repeated key keeps its place
DictSet(d, key, value) ==
    IF \E i \in 1..Len(d.keys) : d.keys[i] = key
    THEN LET i == CHOOSE j \in 1..Len(d.keys) : d.keys[j] = key
         IN  JDict(d.keys, [d.kids EXCEPT ![i] = value])
    ELSE JDict(Append(d.keys, key), Append(d.kids, value))

RECURSIVE parse_value(_, _)
RECURSIVE ObjectLoop(_, _, _)
RECURSIVE ArrayLoop(_, _, _)

\* _parse_object after a value: "}" ends the object, "," starts the next pair
ObjectNext(text, acc, next) ==
    IF next > Len(text) THEN ParseError(next)
    ELSE IF text[next] = "}" THEN Parsed(acc, next + 1)
    ELSE IF text[next] = "," THEN ObjectLoop(text, next + 1, acc)
    ELSE ParseError(next)

\* _parse_object: result[key] = value
ObjectValue(text, acc, key, val) ==
    IF ~val.ok THEN val
    ELSE ObjectNext(text, DictSet(acc, key.v.s, val.v), skip_whitespace(text, val.pos))

\* _parse_object: the colon after the key
ObjectColon(text, acc, key, colon) ==
    IF colon > Len(text) \/ text[colon] # ":" THEN ParseError(colon)
    ELSE ObjectValue(text, acc, key, parse_value(text, colon + 1))

\* _parse_object: the key
ObjectKey(text, acc, key) ==
    IF ~key.ok THEN ParseError(key.pos)
    ELSE ObjectColon(text, acc, key, skip_whitespace(text, key.pos))

\* the while loop of _JSONStringParser._parse_object
ObjectLoop(text, pos0, acc) ==
    ObjectKey(text, acc, parse_string_token(text, skip_whitespace(text, pos0)))

\* _parse_array after a value: "]" ends the array, "," starts the next value
ArrayNext(text, acc, next) ==
    IF next > Len(text) THEN ParseError(next)
    ELSE IF text[next] = "]" THEN Parsed(acc, next + 1)
    ELSE IF text[next] = "," THEN ArrayLoop(text, next + 1, acc)
    ELSE ParseError(next)

\* _parse_array: result.append(value)
ArrayValue(text, acc, val) ==
    IF ~val.ok THEN val
    ELSE ArrayNext(text, JList(Append(acc.kids, val.v)), skip_whitespace(text, val.pos))

\* the while loop of _JSONStringParser._parse_array
ArrayLoop(text, pos, acc) == ArrayValue(text, acc, parse_value(text, pos))

\* _parse_object after "{": the empty object, or the pairs
ObjectOpen(text, p) ==
    IF p <= Len(text) /\ text[p] = "}" THEN Parsed(JDict(<<>>, <<>>), p + 1)
    ELSE ObjectLoop(text, p, JDict(<<>>, <<>>))

\* _parse_array after "[": the empty array, or the values
ArrayOpen(text, p) ==
    IF p <= Len(text) /\ text[p] = "]" THEN Parsed(JList(<<>>), p + 1)
    ELSE ArrayLoop(text, p, JList(<<>>))

\* _parse_value at the first character that is not whitespace
ValueAt(text, pos) ==
    IF pos > Len(text) THEN ParseError(pos)
    ELSE CASE text[pos] = "\"" -> parse_string_token(text, pos)
           [] text[pos] = "{" -> ObjectOpen(text, skip_whitespace(text, pos + 1))
           [] text[pos] = "[" -> ArrayOpen(text, skip_whitespace(text, pos + 1))
           [] text[pos] = "-" \/ IsDigit(text[pos]) -> parse_number(text, pos)
           [] text[pos] = "t" -> parse_literal(text, pos, <<"t", "r", "u", "e">>, JTrue)
           [] text[pos] = "f" -> parse_literal(text, pos, <<"f", "a", "l", "s", "e">>, JFalse)
           [] text[pos] = "n" -> parse_literal(text, pos, <<"n", "u", "l", "l">>, JNull)
           [] OTHER -> ParseError(pos)

\* _JSONStringParser._parse_value
parse_value(text, pos0) == ValueAt(text, skip_whitespace(text, pos0))

\* _JSONStringParser.parse: nothing but whitespace may follow the value
ParseRest(text, r, end) == IF end <= Len(text) THEN ParseError(end) ELSE r

ParseEnd(text, r) ==
    IF ~r.ok THEN r ELSE ParseRest(text, r, skip_whitespace(text, r.pos))

ParseStripped(text) ==
    IF text = <<>> THEN ParseError(1) ELSE ParseEnd(text, parse_value(text, 1))

\* JSONParser.parse_string and _JSONStringParser.parse
parse_string(json_str) == ParseStripped(RStrip(LStrip(json_str)))

(***************************************************************************)
(* Path strings and the disk                                               *)
(*                                                                         *)
(* A path string is what the code builds with f"{a}/{b}".  The operating   *)
(* system resolves it to its sequence of non-empty components; the disk is *)
(* keyed by resolved paths, the lock registry by the literal strings.      *)
(***************************************************************************)
S_json == <<".", "j", "s", "o", "n">>
S_metadata == <<"m", "e", "t", "a", "d", "a", "t", "a">>
S_metadata_json == S_metadata \o S_json

\* NATURALDB_DATA_PATH, an absolute directory
base_dir == <<"/", "d">>

RECURSIVE SplitFrom(_, _, _, _)
SplitFrom(s, i, cur, acc) ==
    IF i > Len(s)
    THEN IF cur = <<>> THEN acc ELSE Append(acc, cur)
    ELSE IF s[i] = "/"
         THEN SplitFrom(s, i + 1, <<>>, IF cur = <<>> THEN acc ELSE Append(acc, cur))
         ELSE SplitFrom(s, i + 1, Append(cur, s[i]), acc)

\* the components the operating system walks for a path string
Resolve(path) == SplitFrom(path, 1, <<>>, <<>>)

\* every component of the literal path string, empty ones included
RECURSIVE SegmentsFrom(_, _, _, _)
SegmentsFrom(s, i, cur, acc) ==
    IF i > Len(s) THEN Append(acc, cur)
    ELSE IF s[i] = "/"
         THEN SegmentsFrom(s, i + 1, <<>>, Append(acc, cur))
         ELSE SegmentsFrom(s, i + 1, Append(cur, s[i]), acc)

Segments(path) == SegmentsFrom(path, 1, <<>>, <<>>)

RECURSIVE RStripSlash(_)
RStripSlash(s) ==
    IF s # <<>> /\ s[Len(s)] = "/" THEN RStripSlash(SubSeq(s, 1, Len(s) - 1)) ELSE s

\* os.path.dirname
Dirname(path) ==
    LET slashes == {i \in 1..Len(path) : path[i] = "/"}
    IN  IF slashes = {} THEN <<>>
        ELSE LET cut == CHOOSE i \in slashes : \A j \in slashes : j <= i
                 head == SubSeq(path, 1, cut)
             IN  IF \A i \in 1..Len(head) : head[i] = "/" THEN head
                 ELSE RStripSlash(head)

IsPrefixPath(a, b) == Len(a) <= Len(b) /\ SubSeq(b, 1, Len(a)) = a

Ancestors(cp) == {SubSeq(cp, 1, n) : n \in 0..Len(cp)}

IsDir(ds, cp) == cp \in ds

IsFile(fs, cp) == cp \in DOMAIN fs

\* os.path.exists
PathExists(ds, fs, path) == IsDir(ds, Resolve(path)) \/ IsFile(fs, Resolve(path))

\* os.makedirs(path, exist_ok=True) fails when a file is in the way
MakedirsFails(ds, fs, path) == \E a \in Ancestors(Resolve(path)) : IsFile(fs, a)

\* os.makedirs(path, exist_ok=True): the directories afterwards
Makedirs(ds, path) == ds \cup Ancestors(Resolve(path))

\* open(path, 'w') fails when the parent is no directory or path is one
OpenWriteFails(ds, fs, path) ==
    LET cp == Resolve(path)
    IN  \/ cp = <<>>
        \/ IsDir(ds, cp)
        \/ ~IsDir(ds, SubSeq(cp, 1, Len(cp) - 1))

\* f[x] := v, extending the domain when x is new
Put(f, x, v) == [y \in DOMAIN f \cup {x} |-> IF y = x THEN v ELSE f[y]]

Drop(f, X) == [y \in DOMAIN f \ X |-> f[y]]

\* open(path, 'w'): creates the file or truncates it
OpenWrite(fs, path) == Put(fs, Resolve(path), <<>>)

\* shutil.rmtree(path): the directories and files that remain
RmtreeDirs(ds, path) == {d \in ds : ~IsPrefixPath(Resolve(path), d)}

RmtreeFiles(fs, path) == Drop(fs, {f \in DOMAIN fs : IsPrefixPath(Resolve(path), f)})

\* os.listdir(path): names of the entries directly below path
Listdir(ds, fs, path) ==
    LET cp == Resolve(path)
    IN  {e[Len(cp) + 1] : e \in {x \in ds \cup DOMAIN fs :
                                    Len(x) = Len(cp) + 1 /\ IsPrefixPath(cp, x)}}

\* os.listdir(path) filtered by os.path.isfile
ListdirFiles(fs, path) ==
    LET cp == Resolve(path)
    IN  {e[Len(cp) + 1] : e \in {x \in DOMAIN fs :
                                    Len(x) = Len(cp) + 1 /\ IsPrefixPath(cp, x)}}

(***************************************************************************)
(* RWLock and LockManager                                                  *)
(***************************************************************************)
\* RWLock.__init__
NewLock == [readers |-> 0, writer |-> FALSE]

\* LockManager.get_lock: the defaultdict creates the lock on first use
LockOf(ls, path) == IF path \in DOMAIN ls THEN ls[path] ELSE NewLock

\* RWLock.acquire_read leaves its wait loop
CanAcquireReadNoWait(l) == TRUE

\* a read lock that admits one reader at a time
CanAcquireReadAlone(l) == ~l.writer /\ l.readers = 0

CanAcquireRead(l) == ~l.writer

\* RWLock.acquire_write leaves its wait loop
CanAcquireWriteIgnoringReaders(l) == ~l.writer

CanAcquireWrite(l) == ~(l.writer \/ l.readers > 0)

acquire_read(ls, path) ==
    Put(ls, path, [LockOf(ls, path) EXCEPT !.readers = @ + 1])

release_read(ls, path) ==
    Put(ls, path, [LockOf(ls, path) EXCEPT !.readers = @ - 1])

\* a lock manager with one lock for all paths: a writer takes every
\* lock there is
acquire_write_global(ls, path) ==
    [q \in DOMAIN ls \cup {path} |-> [LockOf(ls, q) EXCEPT !.writer = TRUE]]

acquire_write(ls, path) ==
    Put(ls, path, [LockOf(ls, path) EXCEPT !.writer = TRUE])

release_write(ls, path) ==
    Put(ls, path, [LockOf(ls, path) EXCEPT !.writer = FALSE])

\* results of a call
Pending == [k |-> "pending", text |-> <<>>, names |-> {}]
Unit == [k |-> "unit", text |-> <<>>, names |-> {}]
None == [k |-> "none", text |-> <<>>, names |-> {}]
Text(c) == [k |-> "text", text |-> c, names |-> {}]
Listing(names) == [k |-> "list", text |-> <<>>, names |-> names]
Raised(e) == [k |-> "raised", text |-> <<e>>, names |-> {}]

(***************************************************************************)
(* FileSystem calls run to completion by one thread.  A disk is a record   *)
(* [dirs, files]; an outcome adds `raised` and, for the reads, the value   *)
(* returned.  The lock of the path is acquired and released inside the     *)
(* call, so its counters are the same before and after.                    *)
(***************************************************************************)
Disk(ds, fs) == [dirs |-> ds, files |-> fs]

Done(ds, fs) == [dirs |-> ds, files |-> fs, raised |-> FALSE]

Fail(D) == [dirs |-> D.dirs, files |-> D.files, raised |-> TRUE]

\* FileSystem.create_file
FS_create_file(D, path, content, recursive) ==
    IF recursive /\ MakedirsFails(D.dirs, D.files, Dirname(path)) THEN Fail(D)
    ELSE IF ~recursive /\ ~PathExists(D.dirs, D.files, Dirname(path)) THEN Fail(D)
    ELSE LET ds == IF recursive THEN Makedirs(D.dirs, Dirname(path)) ELSE D.dirs
         IN  IF OpenWriteFails(ds, D.files, path) THEN Fail(Disk(ds, D.files))
             ELSE Done(ds, Put(OpenWrite(D.files, path), Resolve(path), content))

\* FileSystem.read_file: None, the text, or a raise
FS_read_file(D, path) ==
    IF ~PathExists(D.dirs, D.files, path) THEN None
    ELSE IF IsFile(D.files, Resolve(path)) THEN Text(D.files[Resolve(path)])
    ELSE Raised("IsADirectoryError")

\* FileSystem.delete_file
FS_delete_file(D, path) ==
    IF ~PathExists(D.dirs, D.files, path) THEN Done(D.dirs, D.files)
    ELSE IF IsFile(D.files, Resolve(path)) THEN Done(D.dirs, Drop(D.files, {Resolve(path)}))
    ELSE Fail(D)

\* FileSystem.create_folder
FS_create_folder(D, path) ==
    IF MakedirsFails(D.dirs, D.files, path) THEN Fail(D)
    ELSE Done(Makedirs(D.dirs, path), D.files)

\* FileSystem.delete_folder
FS_delete_folder(D, path) ==
    IF ~PathExists(D.dirs, D.files, path) THEN Done(D.dirs, D.files)
    ELSE IF IsDir(D.dirs, Resolve(path))
         THEN Done(RmtreeDirs(D.dirs, path), RmtreeFiles(D.files, path))
    ELSE Fail(D)

\* FileSystem.list_files: the names listed (os.listdir gives them in no order)
FS_list_files(D, path, show_folder) ==
    IF ~PathExists(D.dirs, D.files, path) THEN Listing({})
    ELSE IF ~IsDir(D.dirs, Resolve(path)) THEN Raised("NotADirectoryError")
    ELSE Listing(IF show_folder THEN Listdir(D.dirs, D.files, path)
                 ELSE ListdirFiles(D.files, path))

(***************************************************************************)
(* Entities and the storage hierarchy                                      *)
(***************************************************************************)
\* an argument left at its default None
Absent == [absent |-> TRUE]

\* User(id=...), Database(name=...), Table(name=..., indexes={}) and
\* Record(id=..., data=...): __post_init__ sanitizes the identifier
User(id) == [id |-> CheckAndSanitize(id)]
Database(name) == [name |-> CheckAndSanitize(name)]
Table(name) == [name |-> CheckAndSanitize(name)]
Record(id, data) == [id |-> CheckAndSanitize(id), data |-> data]

\* Storage.get_path
get_path(user, database, table, record) ==
    base_dir \o <<"/">> \o sanitize_name(user.id)
    \o (IF database # Absent THEN <<"/">> \o sanitize_name(database.name) ELSE <<>>)
    \o (IF table # Absent THEN <<"/">> \o sanitize_name(table.name) ELSE <<>>)
    \o (IF record # Absent THEN <<"/">> \o sanitize_name(record.id) \o S_json ELSE <<>>)

S_name == <<"n", "a", "m", "e">>
S_keys == <<"k", "e", "y", "s">>
S_indexes == <<"i", "n", "d", "e", "x", "e", "s">>

\* DatabaseStorage.base_path
DS_base_path(user, database) == get_path(user, database, Absent, Absent)

\* DatabaseStorage.__init__
DS_init(D, user, database) == FS_create_folder(D, DS_base_path(user, database))

\* DatabaseStorage.get_table_path
DS_get_table_path(user, database, table) ==
    DS_base_path(user, database) \o <<"/">> \o table.name

\* DatabaseStorage.get_table_metadata_path
DS_get_table_metadata_path(user, database, table) ==
    DS_get_table_path(user, database, table) \o <<"/">> \o S_metadata_json

\* the metadata DatabaseStorage.save_table_metadata writes; Table.keys is None
TableMetadata(table) == JDict(<<S_name, S_keys>>, <<JStr(table.name), JNull>>)

\* raw table names
\* the user and the database of the engine
QUser == User(<<"u">>)
QDatabase == Database(<<"d", "b">>)

S_tables == <<"t", "a", "b", "l", "e", "s">>

\* {'name': database.name, 'tables': []}
DatabaseMetadata(database) ==
    JDict(<<S_name, S_tables>>, <<JStr(database.name), JList(<<>>)>>)

DbTableNames == {<<"t">>}

\* the table names of SpecTables
TableNames == {<<"t">>, <<"u">>}

\* record data: {"a": 1} and {"b": "x\n", "c": [true, null]}
DataA == JDict(<< <<"a">> >>, <<JInt(1)>>)
DataB == JDict(<< <<"b">>, <<"c">> >>, <<JStr(<<"x", "\n">>), JList(<<JTrue, JNull>>)>>)
DbData == {DataA, DataB}

S_id == <<"i", "d">>
MaxImported == 2

\* elements of an imported array: objects without an id, with an int id,
\* with the id 'metadata'
ElementPlain == JDict(<< <<"a">> >>, <<JInt(1)>>)
ElementOther == JDict(<< <<"b">> >>, <<JInt(2)>>)
ElementTwo == JDict(<<S_id, <<"a">> >>, <<JInt(2), JInt(1)>>)
ElementMetadata == JDict(<<S_id>>, <<JStr(S_metadata)>>)
ImportObjects == {ElementPlain, ElementOther, ElementTwo, ElementMetadata}

\* if 'id' not in record_data: record_data['id'] = str(i + 1)
ImportDefaulted(record_data, i) ==
    IF HasKey(record_data, S_id) THEN record_data
    ELSE DictSet(record_data, S_id, JStr(NatToStr(i + 1)))

\* the data import_from_json_file hands to insert
ImportSaved == {ImportDefaulted(e, i) : e \in ImportObjects, i \in 0..MaxImported}

\* the values the storage layer is asked to write
StoredValues ==
    DbData \cup {TableMetadata(Table(tn)) : tn \in DbTableNames \cup TableNames}
           \cup {DatabaseMetadata(QDatabase)} \cup ImportSaved

\* JSONParser.to_json_string(value, indent=2) of each of them, computed once
JsonText == [v \in StoredValues |-> to_json_string(v, 2)]

\* JSONParser.parse_string(content) of each text written, computed once
JsonParse == [text \in {JsonText[v] : v \in StoredValues} |-> parse_string(text)]

\* DatabaseStorage.save_table_metadata
DS_save_table_metadata(D, user, database, table) ==
    FS_create_file(D, DS_get_table_metadata_path(user, database, table),
                   JsonText[TableMetadata(table)], FALSE)

\* DatabaseStorage.create_table, after create_folder
DS_create_table_in(made, user, database, table) ==
    IF made.raised THEN made ELSE DS_save_table_metadata(made, user, database, table)

\* DatabaseStorage.create_table
DS_create_table(D, user, database, table) ==
    DS_create_table_in(FS_create_folder(D, DS_get_table_path(user, database, table)),
                       user, database, table)

\* Storage.create_database, after create_folder
S_create_database_in(made, user, database) ==
    IF made.raised THEN made
    ELSE FS_create_file(made, DS_base_path(user, database) \o <<"/">> \o S_metadata_json,
                        JsonText[DatabaseMetadata(database)], FALSE)

\* Storage.create_database
S_create_database(D, user, database) ==
    S_create_database_in(FS_create_folder(D, DS_base_path(user, database)), user, database)

\* DatabaseStorage.metadata for what read_file gave
DS_metadata_of(content, database) ==
    IF content.k = "none" THEN Parsed(DatabaseMetadata(database), 0)
    ELSE IF content.k = "raised" THEN ParseError(0)
    ELSE JsonParse[content.text]

\* DatabaseStorage.metadata (getter)
DS_metadata(D, user, database) ==
    DS_metadata_of(FS_read_file(D, DS_base_path(user, database) \o <<"/">> \o S_metadata_json),
                   database)

\* the table names in metadata['tables']; no names when the read raised
DS_metadata_tables(D, user, database) ==
    IF DS_metadata(D, user, database).ok /\ HasKey(DS_metadata(D, user, database).v, S_tables)
    THEN DictItem(DS_metadata(D, user, database).v, S_tables).kids
    ELSE <<>>

\* DatabaseStorage.__len__: len(self.metadata.get('tables', []))
DS_len(D, user, database) == Len(DS_metadata_tables(D, user, database))

\* DatabaseStorage.delete_table
DS_delete_table(D, user, database, table) ==
    FS_delete_folder(D, DS_get_table_path(user, database, table))

\* TableStorage.base_path
TS_base_path(user, database, table) == get_path(user, database, table, Absent)

\* TableStorage.__init__
TS_init(D, user, database, table) == FS_create_folder(D, TS_base_path(user, database, table))

TS_metadata_path(user, database, table) ==
    TS_base_path(user, database, table) \o <<"/">> \o S_metadata_json

\* TableStorage.metadata (getter): the dict read, or the default
TS_metadata(D, user, database, table) ==
    LET content == FS_read_file(D, TS_metadata_path(user, database, table))
    IN  IF content.k = "none"
        THEN Parsed(JDict(<<S_name, S_indexes>>, <<JStr(table.name), JDict(<<>>, <<>>)>>), 0)
        ELSE IF content.k = "raised" THEN ParseError(0)
        ELSE JsonParse[content.text]

\* TableStorage.metadata (setter)
TS_set_metadata(D, user, database, table, value) ==
    FS_create_file(D, TS_metadata_path(user, database, table), JsonText[value], FALSE)

\* TableStorage.get_record_path
TS_get_record_path(user, database, table, record) ==
    TS_base_path(user, database, table) \o <<"/">> \o record.id \o S_json

\* the path load_record and delete_record build from a record id
TS_record_id_path(user, database, table, record_id) ==
    TS_base_path(user, database, table) \o <<"/">> \o sanitize_name(record_id) \o S_json

\* TableStorage.save_record
TS_save_record(D, user, database, table, record) ==
    FS_create_file(D, TS_get_record_path(user, database, table, record),
                   JsonText[record.data], FALSE)

\* outcomes of a load: the record, "not found", or another raise
Loaded(rec) == [k |-> "record", id |-> rec.id, data |-> rec.data]
NotFound == [k |-> "not_found", id |-> <<>>, data |-> JNull]
LoadRaised == [k |-> "raised", id |-> <<>>, data |-> JNull]

\* Record(id=record_id, data=data) in load_record: raises unless the parse
\* succeeded and gave a dict
LoadOutcome(record_id, data) ==
    IF ~data.ok \/ data.v.t # "dict" THEN LoadRaised
    ELSE Loaded(Record(record_id, data.v))

\* what load_record makes of the content read_file returned
LoadContent(record_id, content) ==
    IF content.k = "none" THEN NotFound
    ELSE IF content.k = "raised" THEN LoadRaised
    ELSE LoadOutcome(record_id, JsonParse[content.text])

\* TableStorage.load_record
TS_load_record(D, user, database, table, record_id) ==
    LoadContent(record_id,
                FS_read_file(D, TS_record_id_path(user, database, table, record_id)))

\* TableStorage.delete_record
TS_delete_record(D, user, database, table, record_id) ==
    FS_delete_file(D, TS_record_id_path(user, database, table, record_id))

\* filename.endswith('.json') and filename != 'metadata.json'
IsRecordFile(filename) == EndsWith(filename, S_json) /\ filename # S_metadata_json

\* TableStorage.list_records: the record ids listed
TS_list_records(D, user, database, table) ==
    LET listed == FS_list_files(D, TS_base_path(user, database, table), FALSE)
    IN  {SubSeq(f, 1, Len(f) - 5) : f \in {g \in listed.names : IsRecordFile(g)}}

\* TableStorage.__len__
TS_len(D, user, database, table) == Cardinality(TS_list_records(D, user, database, table))

\* TableStorage.load_all_records: record id -> outcome of load_record; one
\* failing load makes the whole call raise
TS_load_all_records(D, user, database, table) ==
    LET listed == FS_list_files(D, TS_base_path(user, database, table), FALSE)
        ids == {SubSeq(f, 1, Len(f) - 5) : f \in {g \in listed.names : IsRecordFile(g)}}
    IN  [i \in ids |-> TS_load_record(D, user, database, table, i)]

(***************************************************************************)
(* QueryEngine (query_engine/query_engine.py), CRUD part.  An engine call  *)
(* yields the disk afterwards and what it returned.  The class the engine  *)
(* binds to a table (QueryOperations(user, database, table), with          *)
(* table_storage, find_by_id and find_all) is not in the source tree.      *)
(***************************************************************************)
Outcome(D, ret) == [dirs |-> D.dirs, files |-> D.files, ret |-> ret]

\* QueryOperations(user, database, table): builds its TableStorage
QO_init(D, user, database, table) == TS_init(D, user, database, table)

\* QueryOperations.find_by_id: load_record, None when the record is not found
QO_find_by_id(D, user, database, table, record_id) ==
    TS_load_record(D, user, database, table, record_id)

\* QueryOperations.find_all: the records of load_all_records
QO_find_all(D, user, database, table) == TS_load_all_records(D, user, database, table)

\* QueryEngine.__init__, after DatabaseStorage(user, database): the handle
\* has created the directory, so create_database is called only if it
\* does not exist after that
QE_init_with(handle, user, database) ==
    IF handle.raised \/ PathExists(handle.dirs, handle.files, DS_base_path(user, database))
    THEN handle
    ELSE S_create_database(handle, user, database)

\* QueryEngine.__init__
QE_init(D, user, database) == QE_init_with(DS_init(D, user, database), user, database)

\* what the try/except of an engine call returns: False when the body raised
Returned(r) == Outcome(r, ~r.raised)

\* QueryEngine.create_table
QE_create_table(D, user, database, table) ==
    Returned(DS_create_table(D, user, database, table))

\* the QueryOperations bound to a table: some = FALSE stands for None
NoOperations(D) == [dirs |-> D.dirs, files |-> D.files, raised |-> FALSE, some |-> FALSE]
Operations(r) == [dirs |-> r.dirs, files |-> r.files, raised |-> r.raised, some |-> ~r.raised]

\* a lookup that binds the operations without looking for the table
QE_get_table_operations_unchecked(D, user, database, table_name) ==
    Operations(QO_init(D, user, database, Table(table_name)))

\* QueryEngine.get_table_operations
QE_get_table_operations(D, user, database, table_name) ==
    IF ~PathExists(D.dirs, D.files, DS_get_table_path(user, database, Table(table_name)))
    THEN NoOperations(D)
    ELSE Operations(QO_init(D, user, database, Table(table_name)))

\* QueryEngine.insert, after the second get_table_operations
QE_insert_again(again, user, database, table_name, record) ==
    IF again.raised \/ ~again.some THEN Outcome(again, FALSE)
    ELSE Returned(TS_save_record(again, user, database, Table(table_name), record))

\* QueryEngine.insert, after create_table
QE_insert_created(made, user, database, table_name, record) ==
    IF ~made.ret THEN Outcome(made, FALSE)
    ELSE QE_insert_again(QE_get_table_operations(made, user, database, table_name),
                         user, database, table_name, record)

\* an insert that refuses a table that does not exist
QE_insert_with_no_create(ops, user, database, table_name, record) ==
    IF ops.raised \/ ~ops.some THEN Outcome(ops, FALSE)
    ELSE Returned(TS_save_record(ops, user, database, Table(table_name), record))

\* QueryEngine.insert, after the first get_table_operations
QE_insert_with(ops, user, database, table_name, record) ==
    IF ops.raised THEN Outcome(ops, FALSE)
    ELSE IF ops.some
    THEN Returned(TS_save_record(ops, user, database, Table(table_name), record))
    ELSE QE_insert_created(QE_create_table(ops, user, database, Table(table_name)),
                           user, database, table_name, record)

\* QueryEngine.insert
QE_insert(D, user, database, table_name, record) ==
    QE_insert_with(QE_get_table_operations(D, user, database, table_name),
                   user, database, table_name, record)

Found(D, found) == [dirs |-> D.dirs, files |-> D.files, found |-> found]

QE_find_by_id_with(ops, user, database, table_name, record_id) ==
    IF ops.raised THEN Found(ops, LoadRaised)
    ELSE IF ~ops.some THEN Found(ops, NotFound)
    ELSE Found(ops, QO_find_by_id(ops, user, database, Table(table_name), record_id))

\* QueryEngine.find_by_id: found is the record, NotFound (None) or a raise
QE_find_by_id(D, user, database, table_name, record_id) ==
    QE_find_by_id_with(QE_get_table_operations(D, user, database, table_name),
                       user, database, table_name, record_id)

FoundAll(D, all) == [dirs |-> D.dirs, files |-> D.files, all |-> all]

QE_find_all_with(ops, user, database, table_name) ==
    IF ops.raised \/ ~ops.some THEN FoundAll(ops, <<>>)
    ELSE FoundAll(ops, QO_find_all(ops, user, database, Table(table_name)))

\* QueryEngine.find_all: record id -> record (an empty map for [])
QE_find_all(D, user, database, table_name) ==
    QE_find_all_with(QE_get_table_operations(D, user, database, table_name),
                     user, database, table_name)

QE_update_with(ops, user, database, table_name, record) ==
    IF ops.raised \/ ~ops.some THEN Outcome(ops, FALSE)
    ELSE IF QO_find_by_id(ops, user, database, Table(table_name), record.id).k # "record"
    THEN Outcome(ops, FALSE)
    ELSE Returned(TS_save_record(ops, user, database, Table(table_name), record))

\* QueryEngine.update
QE_update(D, user, database, table_name, record) ==
    QE_update_with(QE_get_table_operations(D, user, database, table_name),
                   user, database, table_name, record)

QE_delete_with(ops, user, database, table_name, record_id) ==
    IF ops.raised \/ ~ops.some THEN Outcome(ops, FALSE)
    ELSE IF QO_find_by_id(ops, user, database, Table(table_name), record_id).k # "record"
    THEN Outcome(ops, FALSE)
    ELSE Returned(TS_delete_record(ops, user, database, Table(table_name), record_id))

\* QueryEngine.delete
QE_delete(D, user, database, table_name, record_id) ==
    QE_delete_with(QE_get_table_operations(D, user, database, table_name),
                   user, database, table_name, record_id)

\* QueryEngine.list_tables: the directories directly below the database
\* directory, other than __pycache__ (os.listdir gives them in no order)
QE_list_tables(D, user, database) ==
    IF ~PathExists(D.dirs, D.files, DS_base_path(user, database)) THEN {}
    ELSE {item \in Listdir(D.dirs, D.files, DS_base_path(user, database)) :
             /\ IsDir(D.dirs, Resolve(DS_base_path(user, database) \o <<"/">> \o item))
             /\ item # <<"_", "_", "p", "y", "c", "a", "c", "h", "e", "_", "_">>}

(***************************************************************************)
(* FileSystem: every call runs on the caller's thread, one step at a time. *)
(*   idle -> acquire -> body1 [-> body2 [-> body3]] -> release -> idle     *)
(* A raise inside the try block goes to release (the finally clause).      *)
(***************************************************************************)
\* number of threads calling into FileSystem
NumThreads == 2

Threads == 1..NumThreads

S_table == base_dir \o <<"/", "t">>
S_record == S_table \o <<"/", "r">> \o S_json

\* the folder and the file the threads work on
FsDirPaths == {S_table}
FsFilePaths == {S_record}

\* complete file contents; a file just opened for writing holds <<>>
TextA == <<"{", "}">>
TextB == <<"[", "]">>
Contents == {TextA, TextB}

WriteOps == {"create_file", "delete_file", "create_folder", "delete_folder"}
ReadOps == {"read_file", "list_files"}
AllOps == WriteOps \cup ReadOps

Calls(names) ==
    {[name |-> n, path |-> p, content |-> c, flag |-> b] :
        n \in names \cap {"create_file"}, p \in FsFilePaths, c \in Contents, b \in BOOLEAN}
    \cup {[name |-> n, path |-> p, content |-> <<>>, flag |-> FALSE] :
        n \in names \cap {"read_file", "delete_file"}, p \in FsFilePaths}
    \cup {[name |-> n, path |-> p, content |-> <<>>, flag |-> FALSE] :
        n \in names \cap {"create_folder", "delete_folder"}, p \in FsDirPaths}
    \cup {[name |-> n, path |-> p, content |-> <<>>, flag |-> b] :
        n \in names \cap {"list_files"}, p \in FsDirPaths, b \in BOOLEAN}

NoCall == [name |-> "none", path |-> <<>>, content |-> <<>>, flag |-> FALSE]

InBody(t) == pc[t] \in {"body1", "body2", "body3", "release"}

HoldsRead(t, path) == InBody(t) /\ op[t].name \in ReadOps /\ op[t].path = path

HoldsWrite(t, path) == InBody(t) /\ op[t].name \in WriteOps /\ op[t].path = path

FsInit ==
    /\ sanIn = <<>>
    /\ sanOut = NotYet
    /\ sanTwice = NotYet
    /\ sanPc = "off"
    /\ dirs \in {Ancestors(Resolve(base_dir)), Ancestors(Resolve(S_table))}
    /\ files = <<>>
    /\ locks = <<>>
    /\ pc = [t \in Threads |-> "idle"]
    /\ op = [t \in Threads |-> NoCall]
    /\ result = [t \in Threads |-> Unit]
    /\ completed = [f \in {Resolve(p) : p \in FsFilePaths} |-> {}]
    /\ last = <<>>
    /\ expect = <<>>
    /\ fresh = <<>>
    /\ gone = {}
    /\ raw = <<>>
    /\ built = <<>>
    /\ opsIn = <<>>
    /\ opsOut = <<>>
    /\ heap = <<>>
    /\ chain = <<>>
    /\ jsonIn = <<>>
    /\ jsonOut = <<>>
    /\ executor = <<>>
    /\ reply = <<>>
    /\ calls = <<>>

Goto(t, label) == pc' = [pc EXCEPT ![t] = label]

Return(t, r) == result' = [result EXCEPT ![t] = r] /\ Goto(t, "release")

\* a thread enters one of the FileSystem calls named in names
Call(t, names) ==
    /\ pc[t] = "idle"
    /\ \E c \in Calls(names) : op' = [op EXCEPT ![t] = c]
    /\ result' = [result EXCEPT ![t] = Pending]
    /\ Goto(t, "acquire")
    /\ UNCHANGED <<sanVars, dbVars, pathVars, opsVars, chainVars, codecVars, execVars, raceVars, diskVars, locks, completed>>

\* lock_manager.acquire_write(path)
AcquireWrite(t) ==
    /\ pc[t] = "acquire"
    /\ op[t].name \in WriteOps
    /\ CanAcquireWrite(LockOf(locks, op[t].path))
    /\ locks' = acquire_write(locks, op[t].path)
    /\ Goto(t, "body1")
    /\ UNCHANGED <<sanVars, dbVars, pathVars, opsVars, chainVars, codecVars, execVars, raceVars, diskVars, op, result, completed>>

\* lock_manager.acquire_read(path)
AcquireRead(t) ==
    /\ pc[t] = "acquire"
    /\ op[t].name \in ReadOps
    /\ CanAcquireRead(LockOf(locks, op[t].path))
    /\ locks' = acquire_read(locks, op[t].path)
    /\ Goto(t, "body1")
    /\ UNCHANGED <<sanVars, dbVars, pathVars, opsVars, chainVars, codecVars, execVars, raceVars, diskVars, op, result, completed>>

\* finally: lock_manager.release_write(path)
ReleaseWrite(t) ==
    /\ pc[t] = "release"
    /\ op[t].name \in WriteOps
    /\ locks' = release_write(locks, op[t].path)
    /\ Goto(t, "idle")
    /\ UNCHANGED <<sanVars, dbVars, pathVars, opsVars, chainVars, codecVars, execVars, raceVars, diskVars, op, result, completed>>

\* finally: lock_manager.release_read(path)
ReleaseRead(t) ==
    /\ pc[t] = "release"
    /\ op[t].name \in ReadOps
    /\ locks' = release_read(locks, op[t].path)
    /\ Goto(t, "idle")
    /\ UNCHANGED <<sanVars, dbVars, pathVars, opsVars, chainVars, codecVars, execVars, raceVars, diskVars, op, result, completed>>

\* create_file whose raise leaves the function without releasing the lock
CreateFileCheckNoFinally(t) ==
    /\ pc[t] = "body1"
    /\ op[t].name = "create_file"
    /\ IF op[t].flag
       THEN IF MakedirsFails(dirs, files, Dirname(op[t].path))
            THEN /\ result' = [result EXCEPT ![t] = Raised("FileExistsError")]
                 /\ Goto(t, "idle")
                 /\ UNCHANGED dirs
            ELSE /\ dirs' = Makedirs(dirs, Dirname(op[t].path))
                 /\ Goto(t, "body2")
                 /\ UNCHANGED result
       ELSE IF ~PathExists(dirs, files, Dirname(op[t].path))
            THEN /\ result' = [result EXCEPT ![t] = Raised("FileSystemError")]
                 /\ Goto(t, "idle")
                 /\ UNCHANGED dirs
            ELSE /\ Goto(t, "body2")
                 /\ UNCHANGED <<dirs, result>>
    /\ UNCHANGED <<sanVars, dbVars, pathVars, opsVars, chainVars, codecVars, execVars, raceVars, files, locks, op, completed>>

\* create_file: os.makedirs(dirname) when recursive, else the parent check
CreateFileCheck(t) ==
    /\ pc[t] = "body1"
    /\ op[t].name = "create_file"
    /\ IF op[t].flag
       THEN IF MakedirsFails(dirs, files, Dirname(op[t].path))
            THEN Return(t, Raised("FileExistsError")) /\ UNCHANGED dirs
            ELSE /\ dirs' = Makedirs(dirs, Dirname(op[t].path))
                 /\ Goto(t, "body2")
                 /\ UNCHANGED result
       ELSE IF ~PathExists(dirs, files, Dirname(op[t].path))
            THEN Return(t, Raised("FileSystemError")) /\ UNCHANGED dirs
            ELSE /\ Goto(t, "body2")
                 /\ UNCHANGED <<dirs, result>>
    /\ UNCHANGED <<sanVars, dbVars, pathVars, opsVars, chainVars, codecVars, execVars, raceVars, files, locks, op, completed>>

\* create_file: open(path, 'w') creates or truncates the file
CreateFileOpen(t) ==
    /\ pc[t] = "body2"
    /\ op[t].name = "create_file"
    /\ IF OpenWriteFails(dirs, files, op[t].path)
       THEN Return(t, Raised("FileNotFoundError")) /\ UNCHANGED files
       ELSE /\ files' = OpenWrite(files, op[t].path)
            /\ Goto(t, "body3")
            /\ UNCHANGED result
    /\ UNCHANGED <<sanVars, dbVars, pathVars, opsVars, chainVars, codecVars, execVars, raceVars, dirs, locks, op, completed>>

\* create_file: f.write(content) and the close at the end of the with block;
\* a file unlinked since the open stays unlinked
CreateFileWrite(t) ==
    /\ pc[t] = "body3"
    /\ op[t].name = "create_file"
    /\ LET cp == Resolve(op[t].path)
       IN  IF IsFile(files, cp)
           THEN /\ files' = Put(files, cp, op[t].content)
                /\ completed' = [completed EXCEPT ![cp] = @ \cup {op[t].content}]
           ELSE UNCHANGED <<files, completed>>
    /\ Return(t, Unit)
    /\ UNCHANGED <<sanVars, dbVars, pathVars, opsVars, chainVars, codecVars, execVars, raceVars, dirs, locks, op>>

\* read_file: if not os.path.exists(path): return None
ReadFileExists(t) ==
    /\ pc[t] = "body1"
    /\ op[t].name = "read_file"
    /\ IF ~PathExists(dirs, files, op[t].path)
       THEN Return(t, None)
       ELSE Goto(t, "body2") /\ UNCHANGED result
    /\ UNCHANGED <<sanVars, dbVars, pathVars, opsVars, chainVars, codecVars, execVars, raceVars, diskVars, locks, op, completed>>

\* read_file: open(path, 'r') and f.read()
ReadFileOpen(t) ==
    /\ pc[t] = "body2"
    /\ op[t].name = "read_file"
    /\ IF IsFile(files, Resolve(op[t].path))
       THEN Return(t, Text(files[Resolve(op[t].path)]))
       ELSE Return(t, Raised("FileNotFoundError"))
    /\ UNCHANGED <<sanVars, dbVars, pathVars, opsVars, chainVars, codecVars, execVars, raceVars, diskVars, locks, op, completed>>

\* delete_file: if os.path.exists(path)
DeleteFileExists(t) ==
    /\ pc[t] = "body1"
    /\ op[t].name = "delete_file"
    /\ IF PathExists(dirs, files, op[t].path)
       THEN Goto(t, "body2") /\ UNCHANGED result
       ELSE Return(t, Unit)
    /\ UNCHANGED <<sanVars, dbVars, pathVars, opsVars, chainVars, codecVars, execVars, raceVars, diskVars, locks, op, completed>>

\* delete_file: os.remove(path)
DeleteFileRemove(t) ==
    /\ pc[t] = "body2"
    /\ op[t].name = "delete_file"
    /\ IF IsFile(files, Resolve(op[t].path))
       THEN files' = Drop(files, {Resolve(op[t].path)}) /\ Return(t, Unit)
       ELSE UNCHANGED files /\ Return(t, Raised("FileNotFoundError"))
    /\ UNCHANGED <<sanVars, dbVars, pathVars, opsVars, chainVars, codecVars, execVars, raceVars, dirs, locks, op, completed>>

\* create_folder: os.makedirs(path, exist_ok=True)
CreateFolderMakedirs(t) ==
    /\ pc[t] = "body1"
    /\ op[t].name = "create_folder"
    /\ IF MakedirsFails(dirs, files, op[t].path)
       THEN UNCHANGED dirs /\ Return(t, Raised("FileExistsError"))
       ELSE dirs' = Makedirs(dirs, op[t].path) /\ Return(t, Unit)
    /\ UNCHANGED <<sanVars, dbVars, pathVars, opsVars, chainVars, codecVars, execVars, raceVars, files, locks, op, completed>>

\* delete_folder: if os.path.exists(path)
DeleteFolderExists(t) ==
    /\ pc[t] = "body1"
    /\ op[t].name = "delete_folder"
    /\ IF PathExists(dirs, files, op[t].path)
       THEN Goto(t, "body2") /\ UNCHANGED result
       ELSE Return(t, Unit)
    /\ UNCHANGED <<sanVars, dbVars, pathVars, opsVars, chainVars, codecVars, execVars, raceVars, diskVars, locks, op, completed>>

\* delete_folder: shutil.rmtree(path)
DeleteFolderRmtree(t) ==
    /\ pc[t] = "body2"
    /\ op[t].name = "delete_folder"
    /\ IF IsDir(dirs, Resolve(op[t].path))
       THEN /\ dirs' = RmtreeDirs(dirs, op[t].path)
            /\ files' = RmtreeFiles(files, op[t].path)
            /\ Return(t, Unit)
       ELSE UNCHANGED diskVars /\ Return(t, Raised("FileNotFoundError"))
    /\ UNCHANGED <<sanVars, dbVars, pathVars, opsVars, chainVars, codecVars, execVars, raceVars, locks, op, completed>>

\* list_files: if not os.path.exists(path): return []
ListFilesExists(t) ==
    /\ pc[t] = "body1"
    /\ op[t].name = "list_files"
    /\ IF ~PathExists(dirs, files, op[t].path)
       THEN Return(t, Listing({}))
       ELSE Goto(t, "body2") /\ UNCHANGED result
    /\ UNCHANGED <<sanVars, dbVars, pathVars, opsVars, chainVars, codecVars, execVars, raceVars, diskVars, locks, op, completed>>

\* list_files: os.listdir(path), filtered by isfile unless show_folder
ListFilesListdir(t) ==
    /\ pc[t] = "body2"
    /\ op[t].name = "list_files"
    /\ IF IsDir(dirs, Resolve(op[t].path))
       THEN Return(t, Listing(IF op[t].flag THEN Listdir(dirs, files, op[t].path)
                                          ELSE ListdirFiles(files, op[t].path)))
       ELSE Return(t, Raised("FileNotFoundError"))
    /\ UNCHANGED <<sanVars, dbVars, pathVars, opsVars, chainVars, codecVars, execVars, raceVars, diskVars, locks, op, completed>>

\* the steps shared by every mix of calls
FsSteps(t) ==
    \/ AcquireWrite(t)
    \/ AcquireRead(t)
    \/ ReleaseWrite(t)
    \/ ReleaseRead(t)
    \/ CreateFileCheck(t)
    \/ CreateFileOpen(t)
    \/ CreateFileWrite(t)
    \/ ReadFileExists(t)
    \/ ReadFileOpen(t)
    \/ DeleteFileExists(t)
    \/ DeleteFileRemove(t)
    \/ CreateFolderMakedirs(t)
    \/ ListFilesExists(t)
    \/ ListFilesListdir(t)

\* threads calling any of the six FileSystem operations
FsNext ==
    \E t \in Threads :
        \/ Call(t, AllOps)
        \/ FsSteps(t)
        \/ DeleteFolderExists(t)
        \/ DeleteFolderRmtree(t)

SpecFS == FsInit /\ [][FsNext]_vars

\* threads reading, writing and deleting files and creating folders, while
\* no thread removes a folder
RwNext ==
    \E t \in Threads :
        \/ Call(t, AllOps \ {"delete_folder"})
        \/ FsSteps(t)

SpecRW == FsInit /\ [][RwNext]_vars

(***************************************************************************)
(* SpecStarve: readers and writers of one file that exists, one thread     *)
(* more than in SpecFS so that two readers can overlap while a writer      *)
(* waits.  A thread inside a call takes its next step if that step is     *)
(* possible again and again (strong fairness): this is more than           *)
(* Condition.wait promises, which wakes the waiting threads in no order,   *)
(* so a thread that waits for ever here waits for ever under any           *)
(* scheduler.  Nothing obliges a thread to start a call.                   *)
(***************************************************************************)
StarveThreads == 1..(NumThreads + 1)

StarveCalls ==
    {[name |-> "read_file", path |-> S_record, content |-> <<>>, flag |-> FALSE],
     [name |-> "create_file", path |-> S_record, content |-> TextB, flag |-> FALSE]}

StarveInit ==
    /\ sanIn = <<>>
    /\ sanOut = NotYet
    /\ sanTwice = NotYet
    /\ sanPc = "off"
    /\ dirs = Ancestors(Resolve(S_table))
    /\ files = Put(<<>>, Resolve(S_record), TextA)
    /\ locks = <<>>
    /\ pc = [t \in StarveThreads |-> "idle"]
    /\ op = [t \in StarveThreads |-> NoCall]
    /\ result = [t \in StarveThreads |-> Unit]
    /\ completed = [f \in {Resolve(S_record)} |-> {TextA}]
    /\ last = <<>>
    /\ expect = <<>>
    /\ fresh = <<>>
    /\ gone = {}
    /\ raw = <<>>
    /\ built = <<>>
    /\ opsIn = <<>>
    /\ opsOut = <<>>
    /\ heap = <<>>
    /\ chain = <<>>
    /\ jsonIn = <<>>
    /\ jsonOut = <<>>
    /\ executor = <<>>
    /\ reply = <<>>
    /\ calls = <<>>

\* a thread enters read_file or create_file on the file
StarveCall(t) ==
    /\ pc[t] = "idle"
    /\ \E c \in StarveCalls : op' = [op EXCEPT ![t] = c]
    /\ result' = [result EXCEPT ![t] = Pending]
    /\ Goto(t, "acquire")
    /\ UNCHANGED <<sanVars, dbVars, pathVars, opsVars, chainVars, codecVars, execVars, raceVars,
                   diskVars, locks, completed>>

\* the steps of a thread inside read_file or create_file
StarveSteps(t) ==
    \/ AcquireWrite(t)
    \/ AcquireRead(t)
    \/ ReleaseWrite(t)
    \/ ReleaseRead(t)
    \/ CreateFileCheck(t)
    \/ CreateFileOpen(t)
    \/ CreateFileWrite(t)
    \/ ReadFileExists(t)
    \/ ReadFileOpen(t)

StarveNext == \E t \in StarveThreads : StarveCall(t) \/ StarveSteps(t)

SpecStarve ==
    StarveInit /\ [][StarveNext]_vars /\ \A t \in StarveThreads : SF_vars(StarveSteps(t))

(***************************************************************************)
(* Properties of the locks and the FileSystem calls                        *)
(***************************************************************************)
LockedPaths == FsDirPaths \cup FsFilePaths

Readers(path) == {t \in Threads : HoldsRead(t, path)}

Writers(path) == {t \in Threads : HoldsWrite(t, path)}

\* C2: on every path, in every interleaving, the lock never has a writer
\* together with readers, and while a write operation is in its critical
\* section no other read or write operation on that path is in its own.
WriterExcludesAll ==
    \A path \in LockedPaths :
        /\ ~(LockOf(locks, path).writer /\ LockOf(locks, path).readers > 0)
        /\ Cardinality(Writers(path)) <= 1
        /\ Writers(path) # {} => Readers(path) = {}

\* a writer is inside its critical section on a path while another thread
\* waits at the lock of that path
WriterExcludesAllWitness ==
    \E t, u \in Threads :
        /\ t # u
        /\ HoldsWrite(t, S_record)
        /\ pc[t] = "body3"
        /\ pc[u] = "acquire"
        /\ op[u].name = "read_file"
        /\ op[u].path = S_record

\* C3: a read_file that runs concurrently with create_file calls on the same
\* path never raises and never returns a partly written file: it returns
\* None or the complete text of a write that has finished.
ReadSeesCompleteFile ==
    \A t \in Threads :
        (op[t].name = "read_file" /\ result[t] # Pending) =>
            \/ result[t] = None
            \/ /\ result[t].k = "text"
               /\ result[t].text \in completed[Resolve(op[t].path)]

\* a reader has returned a complete text and still holds the lock while a
\* writer of the same file waits
ReadSeesCompleteFileWitness ==
    \E t, u \in Threads :
        /\ t # u
        /\ op[t].name = "read_file"
        /\ pc[t] = "release"
        /\ result[t] = Text(TextB)
        /\ op[u].name = "create_file"
        /\ op[u].path = op[t].path
        /\ op[u].content = TextA
        /\ pc[u] = "acquire"
        /\ TextA \in completed[Resolve(op[t].path)]

\* C10: every FileSystem operation releases the lock it acquired on every
\* exit path, a raise included: the reader count and the writer flag of a
\* path account for exactly the threads inside a critical section on it, so
\* a thread that has returned or raised holds nothing.
LocksReleasedOnExit ==
    \A path \in LockedPaths :
        /\ LockOf(locks, path).readers = Cardinality(Readers(path))
        /\ LockOf(locks, path).writer = (Writers(path) # {})

\* create_file(recursive=False) has raised for a missing parent directory and
\* returned, and the lock of its path is free again
LocksReleasedOnExitWitness ==
    \E t \in Threads :
        /\ pc[t] = "idle"
        /\ op[t].name = "create_file"
        /\ ~op[t].flag
        /\ result[t] = Raised("FileSystemError")
        /\ op[t].path \in DOMAIN locks
        /\ locks[op[t].path] = NewLock
        /\ \A u \in Threads : pc[u] = "idle"

\* a thread waiting at the lock of its path can take it as soon as that lock
\* alone permits: a reader when the lock has no writer, a writer when the lock
\* has neither writer nor readers
NotBlockedByOtherPaths ==
    \A t \in Threads :
        pc[t] = "acquire" =>
            /\ (op[t].name \in ReadOps /\ ~LockOf(locks, op[t].path).writer)
                   => ENABLED AcquireRead(t)
            /\ (op[t].name \in WriteOps /\ LockOf(locks, op[t].path) = NewLock)
                   => ENABLED AcquireWrite(t)

\* the lock of a path changes only in a step of a thread whose call is on it
OtherLocksUntouched ==
    \A q \in LockedPaths :
        LockOf(locks', q) # LockOf(locks, q) =>
            \E t \in Threads : pc'[t] # pc[t] /\ op[t].path = q

\* C11: locks of different paths are independent: an acquire on a path is
\* never held up by readers or a writer holding or waiting for the lock of
\* another path, and an operation on a path never changes the lock state of
\* another path.
LocksIndependent == []NotBlockedByOtherPaths /\ [][OtherLocksUntouched]_vars

\* a writer holds the lock of the file while another writer holds the lock of
\* the folder
LocksIndependentWitness ==
    \E t, u \in Threads :
        /\ t # u
        /\ HoldsWrite(t, S_record)
        /\ HoldsWrite(u, S_table)
        /\ LockOf(locks, S_record).writer
        /\ LockOf(locks, S_table).writer

\* C29: writers are not starved: every thread that holds the lock releases
\* it, and every thread waiting in acquire_write on the path acquires the
\* lock in the end, also while other threads keep calling acquire_read
WritersNotStarved ==
    \A t \in StarveThreads :
        (pc[t] = "acquire" /\ op[t].name \in WriteOps) ~> (pc[t] = "body1")

\* what the code does give: every thread that holds the lock releases it
HoldersRelease ==
    \A t \in StarveThreads : (pc[t] \in {"body1", "body2", "body3", "release"}) ~> (pc[t] = "idle")

\* the locks a thread holds: the call it is inside took the lock of its path
HeldBy(t) ==
    IF pc[t] \in {"body1", "body2", "body3", "release"} THEN {op[t].path} ELSE {}

\* no thread holds a lock while it waits for one, and a thread that has
\* returned holds none
NoHoldAndWait == \A t \in DOMAIN pc : pc[t] \in {"idle", "acquire"} => HeldBy(t) = {}

\* while a thread is inside a call some thread inside a call can step
NoDeadlock ==
    (\E t \in StarveThreads : pc[t] # "idle") => (\E t \in StarveThreads : ENABLED StarveSteps(t))

\* the lock accounts for exactly the threads between acquire and release
StarveLockHeldInside ==
    /\ LockOf(locks, S_record).readers
           = Cardinality({t \in StarveThreads : HeldBy(t) # {} /\ op[t].name \in ReadOps})
    /\ LockOf(locks, S_record).writer
           = (\E t \in StarveThreads : HeldBy(t) # {} /\ op[t].name \in WriteOps)

\* C30: storage operations are deadlock-free: no thread holds the lock of
\* one path while it waits for another, every FileSystem call takes one lock
\* and releases it before it returns, and in every interleaving of
\* concurrent calls each call returns in the end
EveryCallReturns ==
    /\ []NoHoldAndWait
    /\ []NoDeadlock
    /\ \A t \in StarveThreads : (pc[t] # "idle") ~> (pc[t] = "idle")

\* the part of it the code gives: no hold-and-wait, no deadlock, every lock
\* taken is released
NoDeadlockAndRelease == []NoHoldAndWait /\ []NoDeadlock /\ []StarveLockHeldInside /\ HoldersRelease

DbRecordIds == {<<"r">>, S_metadata}

Key(table_name, record_id) == <<CheckAndSanitize(table_name), CheckAndSanitize(record_id)>>

Here == Disk(dirs, files)

\* the disk a call leaves behind
After == Disk(dirs', files')

TableExists(D, table_name) ==
    PathExists(D.dirs, D.files, DS_get_table_path(QUser, QDatabase, Table(table_name)))

\* the record of a call: its arguments, what it returned, and what it found
\* on disk before and left on disk after
LastCall(name, table_name, record_id, data, ret, found, ids, readback) ==
    [op |-> name, table |-> table_name, id |-> record_id, data |-> data,
     ret |-> ret, found |-> found, ids |-> ids,
     existed |-> TableExists(Here, table_name),
     stored |-> Key(table_name, record_id) \in DOMAIN expect,
     unchanged |-> (dirs' = dirs /\ files' = files),
     lenBefore |-> TS_len(Here, QUser, QDatabase, Table(table_name)),
     lenAfter |-> TS_len(After, QUser, QDatabase, Table(table_name)),
     readback |-> readback, rows |-> <<>>, raised |-> FALSE]

NoLast ==
    [op |-> "none", table |-> <<>>, id |-> <<>>, data |-> JNull,
     ret |-> FALSE, found |-> NotFound, ids |-> {},
     existed |-> FALSE, stored |-> FALSE, unchanged |-> TRUE,
     lenBefore |-> 0, lenAfter |-> 0, readback |-> NotFound, rows |-> <<>>, raised |-> FALSE]

SetDisk(after) == dirs' = after.dirs /\ files' = after.files

\* load_record of the record just written, by the id the record carries
ReadBack(tn, rid, data) ==
    TS_load_record(After, QUser, QDatabase, Table(tn), Record(rid, data).id)

DbInit ==
    /\ sanIn = <<>>
    /\ sanOut = NotYet
    /\ sanTwice = NotYet
    /\ sanPc = "off"
    /\ dirs = QE_init(Disk({<<>>}, <<>>), QUser, QDatabase).dirs
    /\ files = <<>>
    /\ locks = <<>>
    /\ pc = <<>>
    /\ op = <<>>
    /\ result = <<>>
    /\ completed = <<>>
    /\ last = NoLast
    /\ expect = <<>>
    /\ fresh = <<>>
    /\ gone = {}
    /\ raw = <<>>
    /\ built = <<>>
    /\ opsIn = <<>>
    /\ opsOut = <<>>
    /\ heap = <<>>
    /\ chain = <<>>
    /\ jsonIn = <<>>
    /\ jsonOut = <<>>
    /\ executor = <<>>
    /\ reply = <<>>
    /\ calls = <<>>

\* engine.create_table(Table(name=tn, indexes={}))
CreateTable(tn) ==
    LET out == QE_create_table(Here, QUser, QDatabase, Table(tn))
    IN  /\ SetDisk(out)
        /\ last' = LastCall("create_table", tn, <<>>, JNull, out.ret, NotFound, {}, NotFound)
        /\ UNCHANGED <<expect, fresh, gone>>

\* engine.insert(tn, Record(id=rid, data=data))
Insert(tn, rid, data) ==
    LET out == QE_insert(Here, QUser, QDatabase, tn, Record(rid, data))
        key == Key(tn, rid)
    IN  /\ SetDisk(out)
        /\ last' = LastCall("insert", tn, rid, data, out.ret, NotFound, {},
                            ReadBack(tn, rid, data))
        /\ expect' = IF out.ret THEN Put(expect, key, data) ELSE expect
        /\ fresh' = IF out.ret THEN Put(fresh, key, data) ELSE Drop(fresh, {key})
        /\ gone' = IF out.ret THEN gone \ {key} ELSE gone

\* engine.update(tn, Record(id=rid, data=data))
Update(tn, rid, data) ==
    LET out == QE_update(Here, QUser, QDatabase, tn, Record(rid, data))
        key == Key(tn, rid)
    IN  /\ SetDisk(out)
        /\ last' = LastCall("update", tn, rid, data, out.ret, NotFound, {},
                            ReadBack(tn, rid, data))
        /\ expect' = IF out.ret THEN Put(expect, key, data) ELSE expect
        /\ fresh' = Drop(fresh, {key})
        /\ gone' = gone

\* engine.delete(tn, rid)
Delete(tn, rid) ==
    LET out == QE_delete(Here, QUser, QDatabase, tn, rid)
        key == Key(tn, rid)
    IN  /\ SetDisk(out)
        /\ last' = LastCall("delete", tn, rid, JNull, out.ret, NotFound, {}, NotFound)
        /\ expect' = IF out.ret THEN Drop(expect, {key}) ELSE expect
        /\ fresh' = Drop(fresh, {key})
        /\ gone' = IF out.ret THEN gone \cup {key} ELSE gone

\* engine.find_by_id(tn, rid)
FindById(tn, rid) ==
    LET out == QE_find_by_id(Here, QUser, QDatabase, tn, rid)
    IN  /\ SetDisk(out)
        /\ last' = LastCall("find_by_id", tn, rid, JNull, out.found.k = "record",
                            out.found, {}, NotFound)
        /\ UNCHANGED <<expect, fresh, gone>>

\* engine.find_all(tn)
FindAll(tn) ==
    LET out == QE_find_all(Here, QUser, QDatabase, tn)
    IN  /\ SetDisk(out)
        /\ last' = LastCall("find_all", tn, <<>>, JNull, TRUE, NotFound, DOMAIN out.all,
                            NotFound)
        /\ UNCHANGED <<expect, fresh, gone>>

\* TableStorage(user, database, Table(name=tn, indexes={}))
HandleInit(tn) ==
    LET out == TS_init(Here, QUser, QDatabase, Table(tn))
    IN  /\ SetDisk(out)
        /\ last' = LastCall("TableStorage", tn, <<>>, JNull, ~out.raised, NotFound, {},
                            NotFound)
        /\ UNCHANGED <<expect, fresh, gone>>

\* TableStorage(...).metadata = value
SetMetadata(tn, value) ==
    LET handle == TS_init(Here, QUser, QDatabase, Table(tn))
        out == IF handle.raised THEN handle
               ELSE TS_set_metadata(handle, QUser, QDatabase, Table(tn), value)
    IN  /\ SetDisk(out)
        /\ last' = LastCall("set_metadata", tn, <<>>, value, ~out.raised, NotFound, {},
                            NotFound)
        /\ UNCHANGED <<expect, fresh, gone>>

\* TableStorage(...).save_record(Record(id=rid, data=data))
SaveRecord(tn, rid, data) ==
    LET handle == TS_init(Here, QUser, QDatabase, Table(tn))
        out == IF handle.raised THEN handle
               ELSE TS_save_record(handle, QUser, QDatabase, Table(tn), Record(rid, data))
        key == Key(tn, rid)
    IN  /\ SetDisk(out)
        /\ last' = LastCall("save_record", tn, rid, data, ~out.raised, NotFound, {},
                            ReadBack(tn, rid, data))
        /\ expect' = IF out.raised THEN expect ELSE Put(expect, key, data)
        /\ fresh' = Drop(fresh, {key})
        /\ gone' = IF out.raised THEN gone ELSE gone \ {key}

\* TableStorage(...).delete_record(rid)
DeleteRecord(tn, rid) ==
    LET handle == TS_init(Here, QUser, QDatabase, Table(tn))
        out == IF handle.raised THEN handle
               ELSE TS_delete_record(handle, QUser, QDatabase, Table(tn), rid)
        key == Key(tn, rid)
    IN  /\ SetDisk(out)
        /\ last' = LastCall("delete_record", tn, rid, JNull, ~out.raised, NotFound, {},
                            NotFound)
        /\ expect' = IF out.raised THEN expect ELSE Drop(expect, {key})
        /\ fresh' = Drop(fresh, {key})
        /\ gone' = gone

\* TableStorage(...).load_record(rid)
LoadRecord(tn, rid) ==
    LET handle == TS_init(Here, QUser, QDatabase, Table(tn))
        found == IF handle.raised THEN LoadRaised
                 ELSE TS_load_record(handle, QUser, QDatabase, Table(tn), rid)
    IN  /\ SetDisk(handle)
        /\ last' = LastCall("load_record", tn, rid, JNull, found.k = "record", found, {},
                            NotFound)
        /\ UNCHANGED <<expect, fresh, gone>>

\* TableStorage(...).list_records(), also behind len() and load_all_records()
ListRecords(tn) ==
    LET handle == TS_init(Here, QUser, QDatabase, Table(tn))
        ids == IF handle.raised THEN {}
               ELSE TS_list_records(handle, QUser, QDatabase, Table(tn))
    IN  /\ SetDisk(handle)
        /\ last' = LastCall("list_records", tn, <<>>, JNull, ~handle.raised, NotFound, ids,
                            NotFound)
        /\ UNCHANGED <<expect, fresh, gone>>

DbNext ==
    /\ \/ \E tn \in DbTableNames : CreateTable(tn)
       \/ \E tn \in DbTableNames, rid \in DbRecordIds, data \in DbData : Insert(tn, rid, data)
       \/ \E tn \in DbTableNames, rid \in DbRecordIds, data \in DbData : Update(tn, rid, data)
       \/ \E tn \in DbTableNames, rid \in DbRecordIds : Delete(tn, rid)
       \/ \E tn \in DbTableNames, rid \in DbRecordIds : FindById(tn, rid)
       \/ \E tn \in DbTableNames : FindAll(tn)
       \/ \E tn \in DbTableNames : HandleInit(tn)
       \/ \E tn \in DbTableNames, value \in DbData : SetMetadata(tn, value)
       \/ \E tn \in DbTableNames, rid \in DbRecordIds, data \in DbData : SaveRecord(tn, rid, data)
       \/ \E tn \in DbTableNames, rid \in DbRecordIds : DeleteRecord(tn, rid)
       \/ \E tn \in DbTableNames, rid \in DbRecordIds : LoadRecord(tn, rid)
       \/ \E tn \in DbTableNames : ListRecords(tn)
    /\ UNCHANGED <<sanVars, threadVars, pathVars, opsVars, chainVars, codecVars, execVars, raceVars>>

SpecDB == DbInit /\ [][DbNext]_vars

(***************************************************************************)
(* SpecMap: one table filled through the engine only, with insert, update  *)
(* and delete on three record ids.                                         *)
(***************************************************************************)
MapRecordIds == DbRecordIds \cup {<<"s">>}

MapNext ==
    /\ \/ \E tn \in DbTableNames, rid \in MapRecordIds, data \in DbData : Insert(tn, rid, data)
       \/ \E tn \in DbTableNames, rid \in MapRecordIds, data \in DbData : Update(tn, rid, data)
       \/ \E tn \in DbTableNames, rid \in MapRecordIds : Delete(tn, rid)
    /\ UNCHANGED <<sanVars, threadVars, pathVars, opsVars, chainVars, codecVars, execVars, raceVars>>

SpecMap == DbInit /\ [][MapNext]_vars

(***************************************************************************)
(* SpecPath: the storage layer builds the path of a user, a database, a    *)
(* table or a record from raw identifiers.                                 *)
(***************************************************************************)
\* raw identifiers: plain, made of unsafe characters only, with a slash
\* inside, empty, and one character longer than MAX_NAME_LENGTH
PathNames ==
    {<<"u">>, <<"@">>, <<".", ".">>, <<"a", "/", "b">>, <<>>, Rep("a", MAX_NAME_LENGTH + 1)}

NothingBuilt == [kind |-> "none", depth |-> 0, path |-> <<>>]

Built(kind, depth, path) == [kind |-> kind, depth |-> depth, path |-> path]

RawUser == User(raw.user)
RawDatabase == Database(raw.database)
RawTable == Table(raw.table)
RawRecord == Record(raw.record, JDict(<<>>, <<>>))

PathInit ==
    /\ sanIn = <<>>
    /\ sanOut = NotYet
    /\ sanTwice = NotYet
    /\ sanPc = "off"
    /\ dirs = {}
    /\ files = <<>>
    /\ locks = <<>>
    /\ pc = <<>>
    /\ op = <<>>
    /\ result = <<>>
    /\ completed = <<>>
    /\ last = <<>>
    /\ expect = <<>>
    /\ fresh = <<>>
    /\ gone = {}
    /\ raw \in [user : PathNames, database : PathNames, table : PathNames, record : PathNames]
    /\ built = NothingBuilt
    /\ opsIn = <<>>
    /\ opsOut = <<>>
    /\ heap = <<>>
    /\ chain = <<>>
    /\ jsonIn = <<>>
    /\ jsonOut = <<>>
    /\ executor = <<>>
    /\ reply = <<>>
    /\ calls = <<>>

\* Storage.get_path(user)
UserPath ==
    built' = Built("user", 1, get_path(RawUser, Absent, Absent, Absent))

\* Storage.get_path(user, database), DatabaseStorage.base_path
DatabasePath ==
    built' = Built("database", 2, DS_base_path(RawUser, RawDatabase))

\* Storage.get_path(user, database, table), TableStorage.base_path
TablePath ==
    built' = Built("table", 3, TS_base_path(RawUser, RawDatabase, RawTable))

\* DatabaseStorage.get_table_path(table)
DatabaseTablePath ==
    built' = Built("table", 3, DS_get_table_path(RawUser, RawDatabase, RawTable))

\* DatabaseStorage.get_table_metadata_path(table)
TableMetadataPath ==
    built' = Built("record", 4, DS_get_table_metadata_path(RawUser, RawDatabase, RawTable))

\* Storage.get_path(user, database, table, record)
RecordPath ==
    built' = Built("record", 4, get_path(RawUser, RawDatabase, RawTable, RawRecord))

\* TableStorage.get_record_path(record)
SaveRecordPath ==
    built' = Built("record", 4, TS_get_record_path(RawUser, RawDatabase, RawTable, RawRecord))

\* the path load_record(record_id) and delete_record(record_id) open
LoadRecordPath ==
    built' = Built("record", 4, TS_record_id_path(RawUser, RawDatabase, RawTable, raw.record))

PathNext ==
    /\ \/ UserPath
       \/ DatabasePath
       \/ TablePath
       \/ DatabaseTablePath
       \/ TableMetadataPath
       \/ RecordPath
       \/ SaveRecordPath
       \/ LoadRecordPath
    /\ UNCHANGED <<sanVars, diskVars, threadVars, dbVars, raw, opsVars, chainVars, codecVars, execVars, raceVars>>

SpecPath == PathInit /\ [][PathNext]_vars

(***************************************************************************)
(* Python values as the query operations compare them                      *)
(* (query_engine/operations.py).  A comparison gives "yes", "no" or        *)
(* "raise" (TypeError).                                                    *)
(***************************************************************************)
\* int, float and bool (a subclass of int) compare with each other by value
IsNumber(v) == v.t \in {"int", "float", "true", "false"}

IsNaN(v) == v = JNaN

\* numbers are compared as integers after scaling by 10^PyScale
PyScale == 2

RECURSIVE Pow10(_)
Pow10(k) == IF k <= 0 THEN 1 ELSE 10 * Pow10(k - 1)

Scaled(v) ==
    CASE v.t = "int" -> v.n * Pow10(PyScale)
      [] v.t = "float" -> v.n * Pow10(v.e + PyScale)
      [] v.t = "true" -> Pow10(PyScale)
      [] OTHER -> 0

\* a == b
RECURSIVE PyEq(_, _)
PyEq(a, b) ==
    IF IsNumber(a) /\ IsNumber(b)
    THEN ~IsNaN(a) /\ ~IsNaN(b) /\ Scaled(a) = Scaled(b)
    ELSE IF a.t # b.t THEN FALSE
    ELSE CASE a.t = "str" -> a.s = b.s
           [] a.t = "list" ->
                 /\ Len(a.kids) = Len(b.kids)
                 /\ \A i \in 1..Len(a.kids) : PyEq(a.kids[i], b.kids[i])
           [] a.t = "dict" ->
                 /\ Len(a.keys) = Len(b.keys)
                 /\ \A i \in 1..Len(a.keys) :
                        HasKey(b, a.keys[i]) /\ PyEq(a.kids[i], DictItem(b, a.keys[i]))
           [] OTHER -> TRUE

\* the characters of the strings compared, in code point order
CodePointOrder ==
    <<" ", "'", ",", "-", ".", "0", "1", "2", "3", "4", "5", "6", "7", "8", "9", ":",
      "F", "N", "T", "[", "]", "a", "b", "c", "d", "e", "f", "g", "h", "i", "j", "k",
      "l", "m", "n", "o", "p", "q", "r", "s", "t", "u", "v", "w", "x", "y", "z", "{", "}">>

Ord(c) == CHOOSE i \in 1..Len(CodePointOrder) : CodePointOrder[i] = c

IntOrder(i, j) == IF i < j THEN "lt" ELSE IF i > j THEN "gt" ELSE "eq"

\* str against str: the first differing character decides, then the length
RECURSIVE StrOrder(_, _, _)
StrOrder(x, y, i) ==
    IF i > Len(x) \/ i > Len(y) THEN IntOrder(Len(x), Len(y))
    ELSE IF x[i] = y[i] THEN StrOrder(x, y, i + 1)
    ELSE IntOrder(Ord(x[i]), Ord(y[i]))

\* how a and b are ordered: "lt", "eq", "gt", "none" when a NaN makes every
\* ordering comparison false, "raise" when the types are not orderable
RECURSIVE PyOrder(_, _)
RECURSIVE ListOrder(_, _, _)
ListOrder(x, y, i) ==
    IF i > Len(x) \/ i > Len(y) THEN IntOrder(Len(x), Len(y))
    ELSE IF PyEq(x[i], y[i]) THEN ListOrder(x, y, i + 1)
    ELSE PyOrder(x[i], y[i])

PyOrder(a, b) ==
    IF IsNumber(a) /\ IsNumber(b)
    THEN IF IsNaN(a) \/ IsNaN(b) THEN "none" ELSE IntOrder(Scaled(a), Scaled(b))
    ELSE IF a.t = "str" /\ b.t = "str" THEN StrOrder(a.s, b.s, 1)
    ELSE IF a.t = "list" /\ b.t = "list" THEN ListOrder(a.kids, b.kids, 1)
    ELSE "raise"

Truth(b) == IF b THEN "yes" ELSE "no"

\* a < b, a <= b, a > b, a >= b from the ordering
Ordered(order, accepted) == IF order = "raise" THEN "raise" ELSE Truth(order \in accepted)

\* hash(v) raises TypeError for a list and for a dict
Hashable(v) == v.t \notin {"list", "dict"}

\* sep.join(items)
RECURSIVE JoinStr(_, _, _)
JoinStr(items, sep, i) ==
    IF i > Len(items) THEN <<>>
    ELSE items[i] \o (IF i < Len(items) THEN sep ELSE <<>>) \o JoinStr(items, sep, i + 1)

\* str(v) and repr(v); repr quotes a str (no quote characters inside)
RECURSIVE PyText(_, _)
PyText(v, quoted) ==
    CASE v.t = "null" -> <<"N", "o", "n", "e">>
      [] v.t = "true" -> <<"T", "r", "u", "e">>
      [] v.t = "false" -> <<"F", "a", "l", "s", "e">>
      [] v.t = "int" -> IntToStr(v.n)
      [] v.t = "float" -> IF IsNaN(v) THEN v.s ELSE FloatToStr(v)
      [] v.t = "str" -> IF quoted THEN <<"'">> \o v.s \o <<"'">> ELSE v.s
      [] v.t = "list" ->
            <<"[">> \o JoinStr([i \in 1..Len(v.kids) |-> PyText(v.kids[i], TRUE)],
                               <<",", " ">>, 1) \o <<"]">>
      [] OTHER ->
            <<"{">> \o JoinStr([i \in 1..Len(v.keys) |->
                                   <<"'">> \o v.keys[i] \o <<"'", ":", " ">>
                                   \o PyText(v.kids[i], TRUE)],
                               <<",", " ">>, 1) \o <<"}">>

PyStr(v) == PyText(v, FALSE)

\* needle in text, for two str
IsSubstring(needle, text) ==
    \E i \in 1..(Len(text) - Len(needle) + 1) : SubSeq(text, i, i + Len(needle) - 1) = needle

(***************************************************************************)
(* QueryOperations (query_engine/operations.py): static operations on a    *)
(* list of records.  A record list is a sequence of [id, data]; an         *)
(* operation gives [raised, rows].                                         *)
(***************************************************************************)
\* field_path.split('.')
RECURSIVE SplitDots(_, _, _, _)
SplitDots(path, i, cur, acc) ==
    IF i > Len(path) THEN Append(acc, cur)
    ELSE IF path[i] = "." THEN SplitDots(path, i + 1, <<>>, Append(acc, cur))
    ELSE SplitDots(path, i + 1, Append(cur, path[i]), acc)

\* the loop of _get_nested_field over the parts of the path
RECURSIVE WalkParts(_, _, _)
WalkParts(current, parts, i) ==
    IF i > Len(parts) THEN current
    ELSE IF current.t = "dict" /\ HasKey(current, parts[i])
    THEN WalkParts(DictItem(current, parts[i]), parts, i + 1)
    ELSE JNull

\* QueryOperations._get_nested_field and JoinOperations._get_nested_field_static
get_nested_field(data, field_path) ==
    IF \A i \in 1..Len(field_path) : field_path[i] # "."
    THEN DictGet(data, field_path)
    ELSE WalkParts(data, SplitDots(field_path, 1, <<>>, <<>>), 1)

S_eq == <<"e", "q">>
S_ne == <<"n", "e">>
S_gt == <<"g", "t">>
S_gte == <<"g", "t", "e">>
S_lt == <<"l", "t">>
S_lte == <<"l", "t", "e">>
S_contains == <<"c", "o", "n", "t", "a", "i", "n", "s">>

\* filter_by_field.condition for a field value already looked up
ConditionOn(field_value, value, operator) ==
    CASE operator = S_eq -> Truth(PyEq(field_value, value))
      [] operator = S_ne -> Truth(~PyEq(field_value, value))
      [] operator = S_gt -> Ordered(PyOrder(field_value, value), {"gt"})
      [] operator = S_gte -> Ordered(PyOrder(field_value, value), {"gt", "eq"})
      [] operator = S_lt -> Ordered(PyOrder(field_value, value), {"lt"})
      [] operator = S_lte -> Ordered(PyOrder(field_value, value), {"lt", "eq"})
      [] operator = S_contains ->
            IF value.t # "str" THEN "raise"
            ELSE Truth(IsSubstring(value.s, PyStr(field_value)))
      [] OTHER -> "raise"

\* filter_by_field.condition(record)
Condition(record, field_name, value, operator) ==
    ConditionOn(get_nested_field(record.data, field_name), value, operator)

Rows(rows) == [raised |-> FALSE, rows |-> rows]
OpRaised == [raised |-> TRUE, rows |-> <<>>]

\* QueryOperations.filter: the list comprehension, left to right
RECURSIVE FilterLoop(_, _, _, _, _, _)
FilterStep(records, field_name, value, operator, i, acc, verdict) ==
    IF verdict = "raise" THEN OpRaised
    ELSE FilterLoop(records, field_name, value, operator, i + 1,
                    IF verdict = "yes" THEN Append(acc, records[i]) ELSE acc)

FilterLoop(records, field_name, value, operator, i, acc) ==
    IF i > Len(records) THEN Rows(acc)
    ELSE FilterStep(records, field_name, value, operator, i, acc,
                    Condition(records[i], field_name, value, operator))

\* QueryOperations.filter_by_field
filter_by_field(records, field_name, value, operator) ==
    FilterLoop(records, field_name, value, operator, 1, <<>>)

\* a dict keyed by field value, in insertion order: a sequence of [key, rows]
Groups(groups) == [raised |-> FALSE, groups |-> groups]
GroupsRaised == [raised |-> TRUE, groups |-> <<>>]

\* key in groups
InGroups(groups, key) == \E g \in 1..Len(groups) : PyEq(groups[g].key, key)

\* if key not in groups: groups[key] = []; then groups[key].append(record)
GroupAdd(groups, key, record) ==
    IF InGroups(groups, key)
    THEN [g \in 1..Len(groups) |->
             IF PyEq(groups[g].key, key)
             THEN [groups[g] EXCEPT !.rows = Append(@, record)]
             ELSE groups[g]]
    ELSE Append(groups, [key |-> key, rows |-> <<record>>])

\* the loop of group_by; hashing the key raises TypeError for a list or a dict
RECURSIVE GroupLoop(_, _, _, _)
GroupStep(records, field_name, i, groups, group_key) ==
    IF ~Hashable(group_key) THEN GroupsRaised
    ELSE GroupLoop(records, field_name, i + 1, GroupAdd(groups, group_key, records[i]))

GroupLoop(records, field_name, i, groups) ==
    IF i > Len(records) THEN Groups(groups)
    ELSE GroupStep(records, field_name, i, groups,
                   get_nested_field(records[i].data, field_name))

\* QueryOperations.group_by
group_by(records, field_name) == GroupLoop(records, field_name, 1, <<>>)

\* sort.sort_key(a) < sort.sort_key(b) for the tuples (value is None, value):
\* the first components decide when they differ (False < True), equal values
\* make the tuples equal, otherwise value < value is evaluated
KeyLess(a, b) ==
    IF (a.t = "null") # (b.t = "null") THEN Truth(b.t = "null")
    ELSE IF PyEq(a, b) THEN "no"
    ELSE Ordered(PyOrder(a, b), {"lt"})

RecordLess(x, y, field_name) ==
    KeyLess(get_nested_field(x.data, field_name), get_nested_field(y.data, field_name))

\* sorted() compares keys until the order is settled: two keys that cannot
\* be compared make it raise TypeError
SortRaises(records, field_name) ==
    \E i, j \in 1..Len(records) : RecordLess(records[i], records[j], field_name) = "raise"

\* list.insert(p - 1, x)
InsertAt(acc, x, p) == SubSeq(acc, 1, p - 1) \o <<x>> \o SubSeq(acc, p, Len(acc))

\* x put after every element that is not greater than it
InsertSorted(acc, x, field_name) ==
    IF \E p \in 1..Len(acc) : RecordLess(x, acc[p], field_name) = "yes"
    THEN InsertAt(acc, x, CHOOSE p \in 1..Len(acc) :
                      /\ RecordLess(x, acc[p], field_name) = "yes"
                      /\ \A q \in 1..(p - 1) : RecordLess(x, acc[q], field_name) # "yes")
    ELSE Append(acc, x)

\* sorted(records, key=sort_key): stable, ascending
RECURSIVE SortedLoop(_, _, _, _)
SortedLoop(records, field_name, i, acc) ==
    IF i > Len(records) THEN acc
    ELSE SortedLoop(records, field_name, i + 1, InsertSorted(acc, records[i], field_name))

\* list.reverse()
Reversed(records) == [i \in 1..Len(records) |-> records[Len(records) + 1 - i]]

\* sorted(records, key=sort_key, reverse=...): reverse=True reverses the
\* list, sorts it and reverses the result, which keeps equal keys in order
sorted(records, field_name, reverse) ==
    IF reverse
    THEN Reversed(SortedLoop(Reversed(records), field_name, 1, <<>>))
    ELSE SortedLoop(records, field_name, 1, <<>>)

\* QueryOperations.sort
sort(records, field_name, ascending) ==
    IF SortRaises(records, field_name) THEN OpRaised
    ELSE Rows(sorted(records, field_name, ~ascending))

\* for key, value in data.items(): joined[prefix + key] = value
RECURSIVE MergeFields(_, _, _, _)
MergeFields(joined, data, prefix, i) ==
    IF i > Len(data.keys) THEN joined
    ELSE MergeFields(DictSet(joined, prefix \o data.keys[i], data.kids[i]), data, prefix, i + 1)

\* the row of a matched pair: left fields, then right fields over them
Joined(left_record, right_record, left_prefix, right_prefix) ==
    MergeFields(MergeFields(JDict(<<>>, <<>>), left_record.data, left_prefix, 1),
                right_record.data, right_prefix, 1)

\* the row of an unmatched left record (left_join only)
JoinedLeft(left_record, left_prefix) ==
    MergeFields(JDict(<<>>, <<>>), left_record.data, left_prefix, 1)

\* right_lookup: the right records by their join field value
right_lookup(right_records, right_field) == GroupLoop(right_records, right_field, 1, <<>>)

\* right_lookup[left_value]
LookupRows(lookup, left_value) ==
    lookup[CHOOSE g \in 1..Len(lookup) : PyEq(lookup[g].key, left_value)].rows

\* the rows one left record adds to the result
JoinRows(left_record, lookup, left_value, left_prefix, right_prefix, keep_unmatched) ==
    IF InGroups(lookup, left_value)
    THEN [k \in 1..Len(LookupRows(lookup, left_value)) |->
             Joined(left_record, LookupRows(lookup, left_value)[k], left_prefix, right_prefix)]
    ELSE IF keep_unmatched THEN <<JoinedLeft(left_record, left_prefix)>>
    ELSE <<>>

\* the loop over the left records; left_value in right_lookup hashes left_value
RECURSIVE JoinLoop(_, _, _, _, _, _, _, _)
JoinStep(left_records, lookup, left_field, left_prefix, right_prefix, keep_unmatched, i, acc, left_value) ==
    IF ~Hashable(left_value) THEN OpRaised
    ELSE JoinLoop(left_records, lookup, left_field, left_prefix, right_prefix, keep_unmatched,
                  i + 1,
                  acc \o JoinRows(left_records[i], lookup, left_value, left_prefix,
                                  right_prefix, keep_unmatched))

JoinLoop(left_records, lookup, left_field, left_prefix, right_prefix, keep_unmatched, i, acc) ==
    IF i > Len(left_records) THEN Rows(acc)
    ELSE JoinStep(left_records, lookup, left_field, left_prefix, right_prefix, keep_unmatched,
                  i, acc, get_nested_field(left_records[i].data, left_field))

JoinWith(left_records, lookup, left_field, left_prefix, right_prefix, keep_unmatched) ==
    IF lookup.raised THEN OpRaised
    ELSE JoinLoop(left_records, lookup.groups, left_field, left_prefix, right_prefix,
                  keep_unmatched, 1, <<>>)

\* JoinOperations.inner_join
inner_join(left_records, right_records, left_field, right_field, left_prefix, right_prefix) ==
    JoinWith(left_records, right_lookup(right_records, right_field), left_field,
             left_prefix, right_prefix, FALSE)

\* JoinOperations.left_join
left_join(left_records, right_records, left_field, right_field, left_prefix, right_prefix) ==
    JoinWith(left_records, right_lookup(right_records, right_field), left_field,
             left_prefix, right_prefix, TRUE)

S_count == <<"c", "o", "u", "n", "t">>
S_sum == <<"s", "u", "m">>
S_avg == <<"a", "v", "g">>
S_min == <<"m", "i", "n">>
S_max == <<"m", "a", "x">>

\* aggregate: the values of the field that are not None, in record order
RECURSIVE FieldValues(_, _, _)
FieldValues(records, field_name, i) ==
    IF i > Len(records) THEN <<>>
    ELSE (IF get_nested_field(records[i].data, field_name) = JNull THEN <<>>
          ELSE <<get_nested_field(records[i].data, field_name)>>)
         \o FieldValues(records, field_name, i + 1)

\* sum(values): 0 + v1 + v2 + ...; a value that is not a number raises
RECURSIVE ScaledSum(_, _)
ScaledSum(values, i) == IF i > Len(values) THEN 0 ELSE Scaled(values[i]) + ScaledSum(values, i + 1)

AllNumbers(values) == \A i \in 1..Len(values) : IsNumber(values[i])

\* the sum as a Python number: an int unless a float took part
SumValue(values) ==
    IF \E i \in 1..Len(values) : values[i].t = "float"
    THEN JFloat(ScaledSum(values, 1), 0 - PyScale)
    ELSE JInt(ScaledSum(values, 1) \div Pow10(PyScale))

\* sum(values) / len(values): the float num / den
Ratio(num, den) == [t |-> "ratio", n |-> num, e |-> den, s |-> <<>>, keys |-> <<>>, kids |-> <<>>]

\* min(values) and max(values): each value is compared with the best so far
RECURSIVE BestLoop(_, _, _, _)
BestStep(values, i, best, wanted, order) ==
    IF order = "raise" THEN OpRaised
    ELSE BestLoop(values, i + 1, IF order = wanted THEN values[i] ELSE best, wanted)

BestLoop(values, i, best, wanted) ==
    IF i > Len(values) THEN Rows(<<best>>)
    ELSE BestStep(values, i, best, wanted, PyOrder(values[i], best))

\* aggregate, once the values are collected
AggregateValues(values, operation) ==
    IF values = <<>> THEN Rows(<<JNull>>)
    ELSE CASE operation = S_sum ->
                 IF AllNumbers(values) THEN Rows(<<SumValue(values)>>) ELSE OpRaised
           [] operation = S_avg ->
                 IF AllNumbers(values)
                 THEN Rows(<<Ratio(ScaledSum(values, 1), Len(values) * Pow10(PyScale))>>)
                 ELSE OpRaised
           [] operation = S_min -> BestLoop(values, 2, values[1], "lt")
           [] operation = S_max -> BestLoop(values, 2, values[1], "gt")
           [] OTHER -> OpRaised

\* QueryOperations.aggregate: rows holds the one value returned
aggregate(records, field_name, operation) ==
    IF records = <<>> THEN Rows(<<JNull>>)
    ELSE IF operation = S_count THEN Rows(<<JInt(Len(records))>>)
    ELSE AggregateValues(FieldValues(records, field_name, 1), operation)

(***************************************************************************)
(* SpecOps: the query operations applied to record lists drawn from a      *)
(* pool of documents.  The lists and arguments are chosen initially; each  *)
(* action is one call and keeps what it returned.                          *)
(***************************************************************************)
\* the longest record list grouped or sorted, and filtered or joined
MaxRecords == 3
MaxJoined == 2

S_a == <<"a">>
S_bc == <<"b", ".", "c">>
OpsFields == {S_a, S_bc}

\* documents: field a as int, float, str, list, None; a missing; b.c present
DocOne == JDict(<<S_a>>, <<JInt(1)>>)
DocTwo == JDict(<<S_a>>, <<JInt(2)>>)
DocOneFloat == JDict(<<S_a>>, <<JFloat(1, 0)>>)
DocNone == JDict(<<S_a>>, <<JNull>>)
DocNested == JDict(<< <<"b">> >>, <<JDict(<< <<"c">> >>, <<JInt(1)>>)>>)
DocStr == JDict(<<S_a, <<"b">> >>, <<JStr(<<"o", "n">>), JInt(2)>>)
DocList == JDict(<<S_a>>, <<JList(<<JInt(1)>>)>>)
DocNaN == JDict(<<S_a>>, <<JNaN>>)

OpsDocs == {DocOne, DocTwo, DocOneFloat, DocNone, DocNested, DocStr, DocList}
FilterDocs == OpsDocs \cup {DocNaN}

\* comparison values of filter_by_field
OpsValues == {JInt(1), JFloat(15, 0 - 1), JNull, JStr(<<"o", "n">>)}

S_like == <<"l", "i", "k", "e">>
Operators == {S_eq, S_ne, S_gt, S_gte, S_lt, S_lte, S_contains, S_like}

\* [Record(id, data) for data in datas], with the ids r1, r2, ...
AsRecords(datas) ==
    [i \in 1..Len(datas) |-> [id |-> <<"r">> \o NatToStr(i), data |-> datas[i]]]

RecordLists(docs, n) == {AsRecords(datas) : datas \in UNION {[1..k -> docs] : k \in 0..n}}

OpsPrefixes == {<< <<>>, <<>> >>, << <<"l", "_">>, <<"r", "_">> >>}

Input(kind, records, right, field_name, other, value, prefixes) ==
    [kind |-> kind, records |-> records, right |-> right, field |-> field_name,
     other |-> other, value |-> value, prefixes |-> prefixes]

FilterInputs(n) ==
    {Input("filter", records, <<>>, f, <<>>, v, <<>>) :
        records \in RecordLists(FilterDocs, n), f \in OpsFields, v \in OpsValues}

ListInputs(kind, n) ==
    {Input(kind, records, <<>>, f, <<>>, JNull, <<>>) :
        records \in RecordLists(OpsDocs, n), f \in OpsFields}

JoinInputs(n) ==
    {Input("join", l, r, S_a, f, JNull, p) :
        l \in RecordLists(OpsDocs, n), r \in RecordLists(OpsDocs, n),
        f \in OpsFields, p \in OpsPrefixes}

NoOutput ==
    [op |-> "none", operator |-> <<>>, ascending |-> TRUE, raised |-> FALSE,
     rows |-> <<>>, groups |-> <<>>]

RowsOutput(name, operator, ascending, r) ==
    [op |-> name, operator |-> operator, ascending |-> ascending, raised |-> r.raised,
     rows |-> r.rows, groups |-> <<>>]

GroupsOutput(name, r) ==
    [op |-> name, operator |-> <<>>, ascending |-> TRUE, raised |-> r.raised,
     rows |-> <<>>, groups |-> r.groups]

OpsInit ==
    /\ sanIn = <<>>
    /\ sanOut = NotYet
    /\ sanTwice = NotYet
    /\ sanPc = "off"
    /\ dirs = {}
    /\ files = <<>>
    /\ locks = <<>>
    /\ pc = <<>>
    /\ op = <<>>
    /\ result = <<>>
    /\ completed = <<>>
    /\ last = <<>>
    /\ expect = <<>>
    /\ fresh = <<>>
    /\ gone = {}
    /\ raw = <<>>
    /\ built = NothingBuilt
    /\ opsIn \in FilterInputs(MaxJoined) \cup ListInputs("group", MaxRecords)
                   \cup ListInputs("sort", MaxRecords) \cup JoinInputs(MaxJoined)
                   \cup ListInputs("aggregate", MaxJoined)
    /\ opsOut = NoOutput
    /\ heap = <<>>
    /\ chain = <<>>
    /\ jsonIn = <<>>
    /\ jsonOut = <<>>
    /\ executor = <<>>
    /\ reply = <<>>
    /\ calls = <<>>

OpsFrame == UNCHANGED <<sanVars, diskVars, threadVars, dbVars, pathVars, opsIn, chainVars, codecVars, execVars, raceVars>>

\* QueryOperations.filter_by_field(records, field_name, value, operator)
FilterByField ==
    /\ opsIn.kind = "filter"
    /\ \E operator \in Operators :
           opsOut' = RowsOutput("filter_by_field", operator, TRUE,
                                filter_by_field(opsIn.records, opsIn.field, opsIn.value, operator))
    /\ OpsFrame

\* QueryOperations.group_by(records, field_name)
GroupBy ==
    /\ opsIn.kind = "group"
    /\ opsOut' = GroupsOutput("group_by", group_by(opsIn.records, opsIn.field))
    /\ OpsFrame

\* QueryOperations.sort(records, field_name, ascending)
Sort ==
    /\ opsIn.kind = "sort"
    /\ \E ascending \in BOOLEAN :
           opsOut' = RowsOutput("sort", <<>>, ascending,
                                sort(opsIn.records, opsIn.field, ascending))
    /\ OpsFrame

\* JoinOperations.inner_join(left, right, left_field, right_field, prefixes)
InnerJoin ==
    /\ opsIn.kind = "join"
    /\ opsOut' = RowsOutput("inner_join", <<>>, TRUE,
                            inner_join(opsIn.records, opsIn.right, opsIn.field, opsIn.other,
                                       opsIn.prefixes[1], opsIn.prefixes[2]))
    /\ OpsFrame

\* JoinOperations.left_join(left, right, left_field, right_field, prefixes)
LeftJoin ==
    /\ opsIn.kind = "join"
    /\ opsOut' = RowsOutput("left_join", <<>>, TRUE,
                            left_join(opsIn.records, opsIn.right, opsIn.field, opsIn.other,
                                      opsIn.prefixes[1], opsIn.prefixes[2]))
    /\ OpsFrame

S_median == <<"m", "e", "d", "i", "a", "n">>
Aggregations == {S_count, S_sum, S_avg, S_min, S_max, S_median}

\* QueryOperations.aggregate(records, field_name, operation)
Aggregate ==
    /\ opsIn.kind = "aggregate"
    /\ \E operation \in Aggregations :
           opsOut' = RowsOutput("aggregate", operation, TRUE,
                                aggregate(opsIn.records, opsIn.field, operation))
    /\ OpsFrame

OpsNext == FilterByField \/ GroupBy \/ Sort \/ InnerJoin \/ LeftJoin \/ Aggregate

SpecOps == OpsInit /\ [][OpsNext]_vars

(***************************************************************************)
(* TableQuery, the chainable builder (SpecChain).  heap holds the          *)
(* TableQuery objects the program has made, each by the value of its       *)
(* _records; a fluent call names the object it is called on and records    *)
(* the object it returns.                                                  *)
(***************************************************************************)
MaxChained == 2

ChainDocs == {DocOne, DocTwo, DocStr}

\* QueryOperations.filter: [record for record in records if condition(record)];
\* a condition is given by the data it accepts
RECURSIVE filter(_, _, _, _)
filter(records, accepted, i, acc) ==
    IF i > Len(records) THEN acc
    ELSE filter(records, accepted, i + 1,
                IF records[i].data \in accepted THEN Append(acc, records[i]) ELSE acc)

Smaller(a, b) == IF a < b THEN a ELSE b

\* records[offset:], offset >= 0
SliceFrom(records, offset) == SubSeq(records, Smaller(offset, Len(records)) + 1, Len(records))

\* QueryOperations.limit: records[offset:offset + count], count and offset >= 0
limit(records, count, offset) ==
    SubSeq(records, Smaller(offset, Len(records)) + 1, Smaller(offset + count, Len(records)))

\* TableQuery(records)
TQ_init(records) == records

\* the result of a list operation that cannot raise
Listed(rows) == [raised |-> FALSE, rows |-> rows]

NoChain ==
    [method |-> "none", receiver |-> 0, returned |-> 0, raised |-> FALSE,
     before |-> <<>>, count |-> 0]

\* q.all() and q.count()
TQ_all(objects, q) == objects[q]
TQ_count(objects, q) == Len(objects[q])

\* self._records = <out>; return self.  When the operation raises, the
\* assignment is not reached and nothing is returned.
TQ_fluent(method, q, out) ==
    /\ heap' = IF out.raised THEN heap ELSE [heap EXCEPT ![q] = out.rows]
    /\ chain' = [method |-> method, receiver |-> q,
                 returned |-> IF out.raised THEN 0 ELSE q, raised |-> out.raised,
                 before |-> TQ_all(heap, q), count |-> TQ_count(heap, q)]
    /\ UNCHANGED <<sanVars, diskVars, threadVars, dbVars, pathVars, opsVars, codecVars, execVars, raceVars>>

ChainInit ==
    /\ sanIn = <<>>
    /\ sanOut = NotYet
    /\ sanTwice = NotYet
    /\ sanPc = "off"
    /\ dirs = {}
    /\ files = <<>>
    /\ locks = <<>>
    /\ pc = <<>>
    /\ op = <<>>
    /\ result = <<>>
    /\ completed = <<>>
    /\ last = <<>>
    /\ expect = <<>>
    /\ fresh = <<>>
    /\ gone = {}
    /\ raw = <<>>
    /\ built = NothingBuilt
    /\ opsIn = <<>>
    /\ opsOut = <<>>
    /\ heap \in {<<TQ_init(records)>> : records \in RecordLists(ChainDocs, MaxChained + 1)}
    /\ chain = NoChain
    /\ jsonIn = <<>>
    /\ jsonOut = <<>>
    /\ executor = <<>>
    /\ reply = <<>>
    /\ calls = <<>>

\* q.filter(condition)
TQ_filter ==
    \E q \in DOMAIN heap, accepted \in SUBSET ChainDocs :
        TQ_fluent("filter", q, Listed(filter(heap[q], accepted, 1, <<>>)))

\* q.filter_by(field_name, value, operator)
TQ_filter_by ==
    \E q \in DOMAIN heap, operator \in {S_eq, S_gt} :
        TQ_fluent("filter_by", q, filter_by_field(heap[q], S_a, JInt(1), operator))

\* q.where(field_name, value, operator): return self.filter_by(...)
TQ_where ==
    \E q \in DOMAIN heap, operator \in {S_ne, S_lt} :
        TQ_fluent("where", q, filter_by_field(heap[q], S_a, JInt(2), operator))

\* q.sort(field_name, ascending)
TQ_sort ==
    \E q \in DOMAIN heap, ascending \in BOOLEAN :
        TQ_fluent("sort", q, sort(heap[q], S_a, ascending))

\* q.order_by(field_name, ascending): return self.sort(...)
TQ_order_by ==
    \E q \in DOMAIN heap, ascending \in BOOLEAN :
        TQ_fluent("order_by", q, sort(heap[q], S_a, ascending))

\* q.limit(count, offset)
TQ_limit ==
    \E q \in DOMAIN heap, count \in 0..MaxChained, offset \in 0..1 :
        TQ_fluent("limit", q, Listed(limit(heap[q], count, offset)))

\* q.skip(offset): self._records = self._records[offset:]
TQ_skip ==
    \E q \in DOMAIN heap, offset \in 0..MaxChained :
        TQ_fluent("skip", q, Listed(SliceFrom(heap[q], offset)))

ChainNext ==
    TQ_filter \/ TQ_filter_by \/ TQ_where \/ TQ_sort \/ TQ_order_by \/ TQ_limit \/ TQ_skip

SpecChain == ChainInit /\ [][ChainNext]_vars

\* C22: a fluent call returns a new builder and leaves the builder it was
\* called on unchanged: after q2 = q.filter_by(...) (or filter, where, sort,
\* order_by, limit, skip) q.all() and q.count() are what they were before
FluentCallLeavesReceiver ==
    (chain.method # "none" /\ ~chain.raised) =>
        /\ chain.returned # chain.receiver
        /\ TQ_all(heap, chain.receiver) = chain.before
        /\ TQ_count(heap, chain.receiver) = chain.count

\* what the code does: the call returns the builder it was called on, and
\* no second builder is ever made
FluentCallReturnsSelf ==
    /\ Len(heap) = 1
    /\ (chain.method # "none" /\ ~chain.raised) => chain.returned = chain.receiver
    /\ chain.raised => TQ_all(heap, chain.receiver) = chain.before

\* a fluent call has changed what q.all() and q.count() return
FluentCallChangedReceiver ==
    /\ chain.method = "filter_by"
    /\ ~chain.raised
    /\ TQ_count(heap, chain.receiver) < chain.count

\* the value _set_nested_field cannot be applied to (TypeError)
RaisedValue == [t |-> "raised", n |-> 0, e |-> 0, s |-> <<>>, keys |-> <<>>, kids |-> <<>>]

\* current[part] = child, unless setting the child raised
SetInto(current, part, child) ==
    IF child.t = "raised" THEN child ELSE DictSet(current, part, child)

\* _set_nested_field over the parts of the path: a part that is missing is
\* created as {}, a value on the way that is not a dict raises TypeError
RECURSIVE SetParts(_, _, _, _)
SetParts(current, parts, i, value) ==
    IF current.t # "dict" THEN RaisedValue
    ELSE IF i = Len(parts) THEN DictSet(current, parts[i], value)
    ELSE SetInto(current, parts[i],
                 SetParts(IF HasKey(current, parts[i]) THEN DictItem(current, parts[i])
                          ELSE JDict(<<>>, <<>>),
                          parts, i + 1, value))

\* QueryOperations._set_nested_field
set_nested_field(data, field_path, value) ==
    SetParts(data, SplitDots(field_path, 1, <<>>, <<>>), 1, value)

\* the loop of project over the fields of one record
RECURSIVE ProjectFields(_, _, _, _)
ProjectFields(data, fields, j, projected) ==
    IF j > Len(fields) \/ projected.t = "raised" THEN projected
    ELSE ProjectFields(data, fields, j + 1,
                       set_nested_field(projected, fields[j],
                                        get_nested_field(data, fields[j])))

\* the loop of project over the records
RECURSIVE ProjectLoop(_, _, _, _)
ProjectStep(records, fields, i, acc, projected) ==
    IF projected.t = "raised" THEN OpRaised
    ELSE ProjectLoop(records, fields, i + 1, Append(acc, projected))

ProjectLoop(records, fields, i, acc) ==
    IF i > Len(records) THEN Rows(acc)
    ELSE ProjectStep(records, fields, i, acc,
                     ProjectFields(records[i].data, fields, 1, JDict(<<>>, <<>>)))

\* QueryOperations.project
project(records, fields) == ProjectLoop(records, fields, 1, <<>>)

(***************************************************************************)
(* QueryEngine (query_engine/query_engine.py), query part: filter,         *)
(* project, group_by, sort and join load the whole table and apply the     *)
(* operation; none of them catches what the operation raises.              *)
(***************************************************************************)
Query(D, r) == [dirs |-> D.dirs, files |-> D.files, raised |-> r.raised, rows |-> r.rows]

\* the orders in which a directory listing can give the files of a table
Orders(ids) ==
    {order \in [1..Cardinality(ids) -> ids] :
        \A i, j \in 1..Cardinality(ids) : order[i] = order[j] => i = j}

\* operations.find_all() as a list, in the order of the listing
RecordList(all, order) ==
    IF \E i \in DOMAIN all : all[i].k # "record" THEN OpRaised
    ELSE Rows([i \in 1..Len(order) |-> [id |-> all[order[i]].id, data |-> all[order[i]].data]])

\* operations.filter_by_field(field_name, value, operator)
QO_filter_by_field(found, field_name, value, operator) ==
    IF found.raised THEN OpRaised
    ELSE filter_by_field(found.rows, field_name, value, operator)

QE_filter_with(ops, user, database, table_name, field_name, value, operator, order) ==
    IF ops.raised THEN Query(ops, OpRaised)
    ELSE IF ~ops.some THEN Query(ops, Rows(<<>>))
    ELSE Query(ops, QO_filter_by_field(
                        RecordList(QO_find_all(ops, user, database, Table(table_name)), order),
                        field_name, value, operator))

\* QueryEngine.filter
QE_filter(D, user, database, table_name, field_name, value, operator, order) ==
    QE_filter_with(QE_get_table_operations(D, user, database, table_name),
                   user, database, table_name, field_name, value, operator, order)

\* operations.project(records, fields)
QO_project(found, fields) == IF found.raised THEN OpRaised ELSE project(found.rows, fields)

S_temp == <<"t", "e", "m", "p">>

\* QueryEngine._evaluate_condition on a field value: the comparisons of
\* filter_by_field, but an operator it does not know gives False
evaluate_condition(field_value, value, operator) ==
    IF operator \in {S_eq, S_ne, S_gt, S_gte, S_lt, S_lte, S_contains}
    THEN ConditionOn(field_value, value, operator)
    ELSE "no"

\* records = [r for r in records if self._evaluate_condition(r, ...)]: each
\* evaluation binds QueryOperations to a table named temp first
RECURSIVE QE_where(_, _, _, _, _, _, _)
QE_where_step(made, user, database, records, condition, i, acc, verdict) ==
    IF verdict = "raise" THEN Query(made, OpRaised)
    ELSE QE_where(made, user, database, records, condition, i + 1,
                  IF verdict = "yes" THEN Append(acc, records[i]) ELSE acc)

QE_where_bound(made, user, database, records, condition, i, acc) ==
    IF made.raised THEN Query(made, OpRaised)
    ELSE QE_where_step(made, user, database, records, condition, i, acc,
                       evaluate_condition(get_nested_field(records[i].data, condition.field),
                                          condition.value, condition.operator))

QE_where(D, user, database, records, condition, i, acc) ==
    IF i > Len(records) THEN Query(D, Rows(acc))
    ELSE QE_where_bound(QO_init(D, user, database, Table(S_temp)), user, database, records,
                        condition, i, acc)

\* for field_name, condition in conditions.items(): filter the records
RECURSIVE QE_conditions(_, _, _, _, _)
QE_conditions(found, user, database, conditions, k) ==
    IF found.raised \/ k > Len(conditions) THEN found
    ELSE QE_conditions(QE_where(found, user, database, found.rows, conditions[k], 1, <<>>),
                       user, database, conditions, k + 1)

\* operations.project of the records the conditions left
QE_project_found(found, fields) == Query(found, QO_project(found, fields))

QE_project_with(ops, user, database, table_name, fields, conditions, order) ==
    IF ops.raised THEN Query(ops, OpRaised)
    ELSE IF ~ops.some THEN Query(ops, Rows(<<>>))
    ELSE QE_project_found(
             QE_conditions(
                 Query(ops, RecordList(QO_find_all(ops, user, database, Table(table_name)),
                                       order)),
                 user, database, conditions, 1),
             fields)

\* QueryEngine.project; conditions is a sequence of [field, value, operator]
QE_project(D, user, database, table_name, fields, conditions, order) ==
    QE_project_with(QE_get_table_operations(D, user, database, table_name),
                    user, database, table_name, fields, conditions, order)

\* {k: len(v) for k, v in groups.items()}
GroupCounts(grouped) ==
    IF grouped.raised THEN OpRaised
    ELSE Rows([g \in 1..Len(grouped.groups) |->
                  [key |-> grouped.groups[g].key, count |-> Len(grouped.groups[g].rows)]])

\* operations.group_by(records, field_name), then the counts
QO_group_by(found, field_name) ==
    IF found.raised THEN OpRaised ELSE GroupCounts(group_by(found.rows, field_name))

QE_group_by_with(ops, user, database, table_name, field_name, order) ==
    IF ops.raised THEN Query(ops, OpRaised)
    ELSE IF ~ops.some THEN Query(ops, Rows(<<>>))
    ELSE Query(ops, QO_group_by(
                        RecordList(QO_find_all(ops, user, database, Table(table_name)), order),
                        field_name))

\* QueryEngine.group_by, without aggregations: rows is the map key -> count
QE_group_by(D, user, database, table_name, field_name, order) ==
    QE_group_by_with(QE_get_table_operations(D, user, database, table_name),
                     user, database, table_name, field_name, order)

\* operations.sort(records, field_name, ascending)
QO_sort(found, field_name, ascending) ==
    IF found.raised THEN OpRaised ELSE sort(found.rows, field_name, ascending)

QE_sort_with(ops, user, database, table_name, field_name, ascending, order) ==
    IF ops.raised THEN Query(ops, OpRaised)
    ELSE IF ~ops.some THEN Query(ops, Rows(<<>>))
    ELSE Query(ops, QO_sort(
                        RecordList(QO_find_all(ops, user, database, Table(table_name)), order),
                        field_name, ascending))

\* QueryEngine.sort, without limit
QE_sort(D, user, database, table_name, field_name, ascending, order) ==
    QE_sort_with(QE_get_table_operations(D, user, database, table_name),
                 user, database, table_name, field_name, ascending, order)

S_inner == <<"i", "n", "n", "e", "r">>
S_left == <<"l", "e", "f", "t">>
S_right == <<"r", "i", "g", "h", "t">>

\* the join of the two loaded lists; the aliases are passed as the prefixes
JoinRecords(left_found, right_found, left_field, right_field, join_type) ==
    IF left_found.raised \/ right_found.raised THEN OpRaised
    ELSE IF join_type = S_inner
    THEN inner_join(left_found.rows, right_found.rows, left_field, right_field, S_left, S_right)
    ELSE IF join_type = S_left
    THEN left_join(left_found.rows, right_found.rows, left_field, right_field, S_left, S_right)
    ELSE OpRaised

QE_join_with(left_ops, right_ops, user, database, left_table, right_table, left_field, right_field, join_type, left_order, right_order) ==
    IF left_ops.raised THEN Query(left_ops, OpRaised)
    ELSE IF right_ops.raised THEN Query(right_ops, OpRaised)
    ELSE IF ~left_ops.some \/ ~right_ops.some THEN Query(right_ops, Rows(<<>>))
    ELSE Query(right_ops,
               JoinRecords(
                   RecordList(QO_find_all(right_ops, user, database, Table(left_table)),
                              left_order),
                   RecordList(QO_find_all(right_ops, user, database, Table(right_table)),
                              right_order),
                   left_field, right_field, join_type))

QE_join_right(left_ops, user, database, left_table, right_table, left_field, right_field, join_type, left_order, right_order) ==
    QE_join_with(left_ops,
                 IF left_ops.raised THEN left_ops
                 ELSE QE_get_table_operations(left_ops, user, database, right_table),
                 user, database, left_table, right_table, left_field, right_field,
                 join_type, left_order, right_order)

\* QueryEngine.join, with the default aliases
QE_join(D, user, database, left_table, right_table, left_field, right_field, join_type, left_order, right_order) ==
    QE_join_right(QE_get_table_operations(D, user, database, left_table),
                  user, database, left_table, right_table, left_field, right_field,
                  join_type, left_order, right_order)

\* Record(id=str(record_data['id']), data=record_data)
ImportRecord(record_data) == Record(PyStr(DictItem(record_data, S_id)), record_data)

\* import_from_json_file over the elements of an array, from the i-th on:
\* an element that is not a dict raises (TypeError) on the test for 'id' or
\* on the item access, which the try/except turns into False
RECURSIVE QE_import_records(_, _, _, _, _, _)
QE_import_inserted(inserted, user, database, table_name, elements, i) ==
    IF ~inserted.ret THEN Outcome(inserted, FALSE)
    ELSE QE_import_records(inserted, user, database, table_name, elements, i + 1)

QE_import_records(D, user, database, table_name, elements, i) ==
    IF i > Len(elements) THEN Outcome(D, TRUE)
    ELSE IF elements[i].t # "dict" THEN Outcome(D, FALSE)
    ELSE QE_import_inserted(QE_insert(D, user, database, table_name,
                                      ImportRecord(ImportDefaulted(elements[i], i - 1))),
                            user, database, table_name, elements, i)

\* import_from_json_file, after JSONParser.parse_file
QE_import_parsed(D, user, database, table_name, data) ==
    IF ~data.ok THEN Outcome(D, FALSE)
    ELSE IF data.v.t = "list"
    THEN QE_import_records(D, user, database, table_name, data.v.kids, 1)
    ELSE IF data.v.t = "dict"
    THEN QE_insert(D, user, database, table_name, ImportRecord(ImportDefaulted(data.v, 0)))
    ELSE Outcome(D, TRUE)

\* QueryEngine.import_from_json_file; content is the text of the file
QE_import_from_json_file(D, user, database, table_name, content) ==
    QE_import_parsed(D, user, database, table_name, parse_string(content))

(***************************************************************************)
(* SpecTables: one engine over a database with the tables t and u.         *)
(* Tables are created, deleted and filled; the database handle is asked    *)
(* for its length and the engine for its tables.                           *)
(***************************************************************************)
TbRecordIds == {<<"r">>}

\* the record of a call on the database or on a table of it
TableCall(name, table_name, ret, rows, raised, existed) ==
    [NoLast EXCEPT !.op = name, !.table = table_name, !.ret = ret, !.rows = rows,
                   !.raised = raised, !.existed = existed,
                   !.unchanged = (dirs' = dirs /\ files' = files)]

TablesInit ==
    /\ sanIn = <<>>
    /\ sanOut = NotYet
    /\ sanTwice = NotYet
    /\ sanPc = "off"
    /\ dirs = QE_init(Disk({<<>>}, <<>>), QUser, QDatabase).dirs
    /\ files = QE_init(Disk({<<>>}, <<>>), QUser, QDatabase).files
    /\ locks = <<>>
    /\ pc = <<>>
    /\ op = <<>>
    /\ result = <<>>
    /\ completed = <<>>
    /\ last = NoLast
    /\ expect = <<>>
    /\ fresh = <<>>
    /\ gone = {}
    /\ raw = <<>>
    /\ built = <<>>
    /\ opsIn = <<>>
    /\ opsOut = <<>>
    /\ heap = <<>>
    /\ chain = <<>>
    /\ jsonIn = <<>>
    /\ jsonOut = <<>>
    /\ executor = <<>>
    /\ reply = <<>>
    /\ calls = <<>>

\* QueryEngine(user, database)
Construct ==
    /\ SetDisk(QE_init(Here, QUser, QDatabase))
    /\ last' = TableCall("QueryEngine", <<>>, ~QE_init(Here, QUser, QDatabase).raised,
                         <<>>, QE_init(Here, QUser, QDatabase).raised, FALSE)
    /\ UNCHANGED <<expect, fresh, gone>>

\* Storage().create_database(user, database)
CreateDatabase ==
    /\ SetDisk(S_create_database(Here, QUser, QDatabase))
    /\ last' = TableCall("create_database", <<>>,
                         ~S_create_database(Here, QUser, QDatabase).raised, <<>>,
                         S_create_database(Here, QUser, QDatabase).raised, FALSE)
    /\ UNCHANGED <<expect, fresh, gone>>

\* engine.database_storage.delete_table(Table(name=tn, indexes={}))
DeleteTable(tn) ==
    /\ SetDisk(DS_delete_table(Here, QUser, QDatabase, Table(tn)))
    /\ last' = TableCall("delete_table", tn,
                         ~DS_delete_table(Here, QUser, QDatabase, Table(tn)).raised, <<>>,
                         DS_delete_table(Here, QUser, QDatabase, Table(tn)).raised,
                         TableExists(Here, tn))
    /\ UNCHANGED <<expect, fresh, gone>>

\* engine.list_tables()
ListTables ==
    /\ UNCHANGED <<dirs, files, expect, fresh, gone>>
    /\ last' = [TableCall("list_tables", <<>>, TRUE, <<>>, FALSE, FALSE)
                    EXCEPT !.ids = QE_list_tables(Here, QUser, QDatabase)]

\* len(engine.database_storage)
DbLen ==
    /\ UNCHANGED <<dirs, files, expect, fresh, gone>>
    /\ last' = [TableCall("len", <<>>, TRUE, <<>>, FALSE, FALSE)
                    EXCEPT !.lenAfter = DS_len(Here, QUser, QDatabase)]

\* the record files of a table, as the listing of its directory gives them
ListedIds(tn) ==
    IF TableExists(Here, tn) THEN TS_list_records(Here, QUser, QDatabase, Table(tn)) ELSE {}

\* a query call: the disk it leaves and what it returned or raised
QueryCall(name, tn, out, existed) ==
    /\ SetDisk(out)
    /\ last' = TableCall(name, tn, ~out.raised, out.rows, out.raised, existed)
    /\ UNCHANGED <<expect, fresh, gone>>

\* a call that returns a bool
BoolCall(name, tn, out) ==
    /\ SetDisk(out)
    /\ last' = TableCall(name, tn, out.ret, <<>>, FALSE, TableExists(Here, tn))
    /\ UNCHANGED <<expect, fresh, gone>>

\* engine.create_table(Table(name=tn, indexes={}))
TbCreateTable(tn) == BoolCall("create_table", tn, QE_create_table(Here, QUser, QDatabase, Table(tn)))

\* engine.insert(tn, Record(id=rid, data=data))
TbInsert(tn, rid, data) ==
    BoolCall("insert", tn, QE_insert(Here, QUser, QDatabase, tn, Record(rid, data)))

\* engine.update(tn, Record(id=rid, data=data))
TbUpdate(tn, rid, data) ==
    BoolCall("update", tn, QE_update(Here, QUser, QDatabase, tn, Record(rid, data)))

\* engine.delete(tn, rid)
TbDelete(tn, rid) == BoolCall("delete", tn, QE_delete(Here, QUser, QDatabase, tn, rid))

FoundCall(tn, out) ==
    /\ SetDisk(out)
    /\ last' = [TableCall("find_by_id", tn, out.found.k = "record", <<>>,
                          out.found.k = "raised", TableExists(Here, tn))
                    EXCEPT !.found = out.found]
    /\ UNCHANGED <<expect, fresh, gone>>

\* engine.find_by_id(tn, rid)
TbFindById(tn, rid) == FoundCall(tn, QE_find_by_id(Here, QUser, QDatabase, tn, rid))

FoundAllCall(tn, out) ==
    /\ SetDisk(out)
    /\ last' = [TableCall("find_all", tn, TRUE, <<>>, FALSE, TableExists(Here, tn))
                    EXCEPT !.ids = DOMAIN out.all]
    /\ UNCHANGED <<expect, fresh, gone>>

\* engine.find_all(tn)
TbFindAll(tn) == FoundAllCall(tn, QE_find_all(Here, QUser, QDatabase, tn))

TbFields == {S_a, <<"c">>}
TbOperators == {S_eq, S_gt}
TbProjections == {<<S_a>>, << <<"b">>, S_bc >>}
TbJoinTypes == {S_inner, S_left}

\* the conditions of project: none, a known operator, an unknown operator
TbConditions ==
    {<<>>,
     <<[field |-> S_a, value |-> JInt(1), operator |-> S_eq]>>,
     <<[field |-> S_a, value |-> JInt(1), operator |-> S_like]>>}

\* engine.filter(tn, field_name, value, operator)
FilterTable(tn, field_name, value, operator, order) ==
    QueryCall("filter", tn,
              QE_filter(Here, QUser, QDatabase, tn, field_name, value, operator, order),
              TableExists(Here, tn))

\* engine.project(tn, fields, conditions); ids keeps the operators given and
\* lenBefore the number of records the table held
ProjectCall(tn, conditions, out) ==
    /\ SetDisk(out)
    /\ last' = [TableCall("project", tn, ~out.raised, out.rows, out.raised, TableExists(Here, tn))
                    EXCEPT !.ids = {conditions[k].operator : k \in 1..Len(conditions)},
                           !.lenBefore = Cardinality(ListedIds(tn))]
    /\ UNCHANGED <<expect, fresh, gone>>

ProjectTable(tn, fields, conditions, order) ==
    ProjectCall(tn, conditions,
                QE_project(Here, QUser, QDatabase, tn, fields, conditions, order))

\* engine.group_by(tn, field_name)
GroupByTable(tn, field_name, order) ==
    QueryCall("group_by", tn, QE_group_by(Here, QUser, QDatabase, tn, field_name, order),
              TableExists(Here, tn))

\* engine.sort(tn, field_name, ascending)
SortTable(tn, field_name, ascending, order) ==
    QueryCall("sort", tn, QE_sort(Here, QUser, QDatabase, tn, field_name, ascending, order),
              TableExists(Here, tn))

\* engine.join(left_table, right_table, left_field, right_field, join_type)
JoinTables(left_table, right_table, join_type, left_order, right_order) ==
    QueryCall("join", left_table,
              QE_join(Here, QUser, QDatabase, left_table, right_table, S_a, S_a, join_type,
                      left_order, right_order),
              TableExists(Here, left_table) /\ TableExists(Here, right_table))

TablesNext ==
    /\ \/ Construct
       \/ CreateDatabase
       \/ \E tn \in TableNames : TbCreateTable(tn)
       \/ \E tn \in TableNames : DeleteTable(tn)
       \/ \E tn \in TableNames, rid \in TbRecordIds : TbInsert(tn, rid, DataA)
       \/ \E tn \in TableNames, rid \in TbRecordIds : TbUpdate(tn, rid, DataB)
       \/ \E tn \in TableNames, rid \in TbRecordIds : TbDelete(tn, rid)
       \/ \E tn \in TableNames, rid \in TbRecordIds : TbFindById(tn, rid)
       \/ \E tn \in TableNames : TbFindAll(tn)
       \/ ListTables
       \/ DbLen
       \/ \E tn \in TableNames, o \in TbOperators :
              \E order \in Orders(ListedIds(tn)) : FilterTable(tn, S_a, JInt(1), o, order)
       \/ \E tn \in TableNames, fields \in TbProjections, conditions \in TbConditions :
              \E order \in Orders(ListedIds(tn)) : ProjectTable(tn, fields, conditions, order)
       \/ \E tn \in TableNames, f \in TbFields :
              \E order \in Orders(ListedIds(tn)) : GroupByTable(tn, f, order)
       \/ \E tn \in TableNames, ascending \in BOOLEAN :
              \E order \in Orders(ListedIds(tn)) : SortTable(tn, S_a, ascending, order)
       \/ \E lt, rt \in TableNames, jt \in TbJoinTypes :
              \E lo \in Orders(ListedIds(lt)), ro \in Orders(ListedIds(rt)) :
                  JoinTables(lt, rt, jt, lo, ro)
    /\ UNCHANGED <<sanVars, threadVars, pathVars, opsVars, chainVars, codecVars, execVars, raceVars>>

SpecTables == TablesInit /\ [][TablesNext]_vars

(***************************************************************************)
(* SpecCodec: JSONParser.to_json_string on a value and                     *)
(* JSONParser.parse_string on the text written, or on a text given.        *)
(***************************************************************************)
MaxItems == 2

CodecAtoms ==
    {JNull, JTrue, JFalse, JInt(0), JInt(0 - 7), JInt(12),
     JFloat(0, 0), JFloat(15, 0 - 1), JFloat(1, 16), JFloat(1, 0 - 5), JFloat(0 - 25, 0 - 1),
     JFloat(3, 0), JInf, JNegInf, JNaN,
     JStr(<<>>), JStr(<<"a">>), JStr(<<"a", "\"", "\\", "/">>), JStr(<<"\n", "\t", "\r", "\f">>),
     JStr(<<SOH, BS>>), JStr(<<" ", "x", " ">>)}

CodecKeys == {<<"b">>, <<"a">>, <<>>, <<"\"", "\n">>}

CodecItems ==
    {JNull, JInt(1), JFloat(1, 0), JStr(<<"a">>), JList(<<>>), JDict(<<>>, <<>>),
     JList(<<JInt(1), JList(<<JTrue>>)>>), JDict(<< <<"k">> >>, <<JList(<<JFloat(5, 0 - 1)>>)>>)}

\* arrays, and objects with pairwise different keys in every order
CodecValues(n) ==
    CodecAtoms
    \cup {JList(items) : items \in UNION {[1..k -> CodecItems] : k \in 0..n}}
    \cup {JDict(ks, vs) : ks \in {q \in UNION {[1..k -> CodecKeys] : k \in 0..n} :
                                    \A i, j \in 1..Len(q) : q[i] = q[j] => i = j},
                          vs \in UNION {[1..k -> CodecItems] : k \in 0..n} \ {<<>>}}

\* empty or whitespace-only input
TextsEmpty ==
    {<<>>,
     <<" ">>,
     <<" ", "\n", "\t">>}

\* a malformed literal or number
TextsLiteral ==
    {<<"n", "u", "l">>,
     <<"t", "r", "u">>,
     <<"f", "a", "l", "s">>,
     <<"n", "u", "l", "L">>,
     <<"1", "2", "3", ".", "4", "5", "6", ".", "7", "8", "9">>,
     <<"0", "1">>,
     <<"-">>,
     <<"1", ".">>,
     <<"1", "e">>,
     <<".", "5">>,
     <<"+", "1">>,
     <<"1", ".", "e", "2">>,
     <<"-", "-", "1">>}

\* an unterminated string, array or object
TextsUnterminated ==
    {<<"\"", "a", "b">>,
     <<"\"", "a", "\\", "\"">>,
     <<"[", "1">>,
     <<"[", "1", ",">>,
     <<"{", "\"", "a", "\"", ":", "1">>,
     <<"{", "\"", "a", "\"", ":">>,
     <<"{">>,
     <<"[">>}

\* a trailing comma in an array or object
TextsTrailingComma ==
    {<<"[", "1", ",", "]">>,
     <<"{", "\"", "a", "\"", ":", "1", ",", "}">>,
     <<"[", "1", ",", " ", "2", ",", " ", "]">>}

\* a missing colon after an object key
TextsMissingColon ==
    {<<"{", "\"", "a", "\"", " ", "1", "}">>,
     <<"{", "\"", "a", "\"", "}">>,
     <<"{", "\"", "a", "\"", ",", "1", "}">>}

\* an invalid escape sequence
TextsEscape ==
    {<<"\"", "\\", "x", "\"">>,
     <<"\"", "\\", "u", "0", "0", "\"">>,
     <<"\"", "\\", "u", "0", "0", "g", "1", "\"">>,
     <<"\"", "\\", "U", "0", "0", "6", "1", "\"">>,
     <<"\"", "\\", " ", "\"">>,
     <<"\"", "\\", "u", "+", "0", "6", "1", "\"">>,
     <<"\"", "\\", "u", "0", "x", "6", "1", "\"">>,
     <<"\"", "\\", "u", " ", "6", "1", " ", "\"">>,
     <<"\"", "\\", "u", "6", "_", "1", " ", "\"">>,
     <<"\"", "\\", "u", "-", "0", "6", "1", "\"">>}

\* content after the root value
TextsTrailing ==
    {<<"1", " ", "2">>,
     <<"n", "u", "l", "l", "x">>,
     <<"{", "\"", "a", "\"", ":", "1", "}", "}">>,
     <<"[", "]", " ", "[", "]">>,
     <<"\"", "a", "\"", " ", "b">>,
     <<"t", "r", "u", "e", "f", "a", "l", "s", "e">>}

MalformedTexts ==
    TextsEmpty \cup TextsLiteral \cup TextsUnterminated \cup TextsTrailingComma
    \cup TextsMissingColon \cup TextsEscape \cup TextsTrailing

\* the \u escapes int(hex_digits, 16) takes although they are not four
\* hexadecimal digits
LenientEscapes ==
    {<<"\"", "\\", "u", "+", "0", "6", "1", "\"">>,
     <<"\"", "\\", "u", "0", "x", "6", "1", "\"">>,
     <<"\"", "\\", "u", " ", "6", "1", " ", "\"">>,
     <<"\"", "\\", "u", "6", "_", "1", " ", "\"">>}

\* well-formed texts
WellFormedTexts ==
    {<<"[", "1", ",", " ", "2", "]">>,
     <<" ", "{", "\"", "a", "\"", ":", " ", "1", "}", " ">>,
     <<"\"", "\\", "u", "0", "0", "6", "1", "\"">>,
     <<"-", "0", ".", "5", "e", "1">>,
     <<"\"", "\\", "/", "\"">>}

CodecTexts == MalformedTexts \cup WellFormedTexts

NotParsed == ParseError(0)

NoCodec == [stage |-> "none", indent |-> NoIndent, text |-> <<>>, parsed |-> NotParsed]

CodecInit ==
    /\ sanIn = <<>>
    /\ sanOut = NotYet
    /\ sanTwice = NotYet
    /\ sanPc = "off"
    /\ dirs = {}
    /\ files = <<>>
    /\ locks = <<>>
    /\ pc = <<>>
    /\ op = <<>>
    /\ result = <<>>
    /\ completed = <<>>
    /\ last = <<>>
    /\ expect = <<>>
    /\ fresh = <<>>
    /\ gone = {}
    /\ raw = <<>>
    /\ built = NothingBuilt
    /\ opsIn = <<>>
    /\ opsOut = <<>>
    /\ heap = <<>>
    /\ chain = <<>>
    /\ jsonIn \in {[kind |-> "value", v |-> v, text |-> <<>>] :
                      v \in {w \in CodecValues(MaxItems) :
                                w.t = "dict" => Len(w.keys) = Len(w.kids)}}
                  \cup {[kind |-> "text", v |-> JNull, text |-> text] : text \in CodecTexts}
    /\ jsonOut = NoCodec
    /\ executor = <<>>
    /\ reply = <<>>
    /\ calls = <<>>

CodecFrame ==
    UNCHANGED <<sanVars, diskVars, threadVars, dbVars, pathVars, opsVars, chainVars, jsonIn,
                execVars, raceVars>>

\* JSONParser.to_json_string(v, indent), compact (indent None) or indented
ToJsonString ==
    /\ jsonIn.kind = "value"
    /\ jsonOut.stage = "none"
    /\ \E indent \in {NoIndent, 2} :
           jsonOut' = [stage |-> "written", indent |-> indent,
                       text |-> to_json_string(jsonIn.v, indent), parsed |-> NotParsed]
    /\ CodecFrame

\* JSONParser.parse_string(text) on the text written
ParseWritten ==
    /\ jsonOut.stage = "written"
    /\ jsonOut' = [jsonOut EXCEPT !.stage = "parsed", !.parsed = parse_string(jsonOut.text)]
    /\ CodecFrame

\* JSONParser.parse_string(text) on a text given
ParseString ==
    /\ jsonIn.kind = "text"
    /\ jsonOut.stage = "none"
    /\ jsonOut' = [jsonOut EXCEPT !.stage = "parsed", !.text = jsonIn.text,
                                  !.parsed = parse_string(jsonIn.text)]
    /\ CodecFrame

CodecNext == ToJsonString \/ ParseWritten \/ ParseString

SpecCodec == CodecInit /\ [][CodecNext]_vars

\* C24: parse_string(to_json_string(v, indent)) = v for every value, compact
\* and indented, with the order of keys and elements kept and integers
\* staying integers and floats staying floats
RoundTrip ==
    (jsonIn.kind = "value" /\ jsonOut.stage = "parsed") =>
        (jsonOut.parsed.ok /\ jsonOut.parsed.v = jsonIn.v)

RECURSIVE AllFinite(_)
AllFinite(v) ==
    /\ v.t = "float" => v.s = <<>>
    /\ \A i \in 1..Len(v.kids) : AllFinite(v.kids[i])

\* what the code does: the round trip holds for the values whose floats
\* are all finite, and the text of inf, -inf and nan is rejected
RoundTripFinite ==
    (jsonIn.kind = "value" /\ jsonOut.stage = "parsed") =>
        IF AllFinite(jsonIn.v) THEN jsonOut.parsed.ok /\ jsonOut.parsed.v = jsonIn.v
        ELSE ~jsonOut.parsed.ok

\* C25: parse_string rejects every malformed text: empty or whitespace-only
\* input, a malformed literal or number, an unterminated string, array or
\* object, a trailing comma, a missing colon, an invalid escape sequence,
\* content after the root value
MalformedRejected ==
    (jsonIn.kind = "text" /\ jsonOut.stage = "parsed" /\ jsonIn.text \in MalformedTexts) =>
        ~jsonOut.parsed.ok

\* what the code does: every malformed text is rejected but the \u escapes
\* that int(hex_digits, 16) takes, which read as the character a
MalformedRejectedButHex ==
    (jsonIn.kind = "text" /\ jsonOut.stage = "parsed" /\ jsonIn.text \in MalformedTexts) =>
        IF jsonIn.text \in LenientEscapes
        THEN jsonOut.parsed = Parsed(JStr(<<"a">>), Len(jsonIn.text) + 1)
        ELSE ~jsonOut.parsed.ok

(***************************************************************************)
(* SpecImport: one engine, JSON files imported into the table t.           *)
(***************************************************************************)
\* the values the imported files hold: arrays of objects, an array with an
\* element that is no object, a single object, a number
ImportValues(n) ==
    {JList(items) : items \in UNION {[1..k -> ImportObjects] : k \in 0..n}}
    \cup {JList(<<ElementPlain, JInt(5)>>), ElementPlain, ElementTwo, JInt(7)}

\* the texts of the files, one of them malformed
ImportTexts(n) == {to_json_string(v, 2) : v \in ImportValues(n)} \cup {<<"[">>}

ImportCall(tn, content, out) ==
    /\ SetDisk(out)
    /\ last' = [TableCall("import", tn, out.ret, <<>>, FALSE, TableExists(Here, tn))
                    EXCEPT !.data = IF parse_string(content).ok
                                    THEN parse_string(content).v ELSE JNull,
                           !.lenBefore = Cardinality(ListedIds(tn))]
    /\ UNCHANGED <<expect, fresh, gone>>

\* engine.import_from_json_file(tn, file_path), the file holding content
ImportFromJsonFile(tn, content) ==
    ImportCall(tn, content, QE_import_from_json_file(Here, QUser, QDatabase, tn, content))

ImportNext ==
    /\ \E content \in ImportTexts(MaxImported) : ImportFromJsonFile(<<"t">>, content)
    /\ UNCHANGED <<sanVars, threadVars, pathVars, opsVars, chainVars, codecVars, execVars, raceVars>>

SpecImport == TablesInit /\ [][ImportNext]_vars

\* the id import_from_json_file gives the i-th element of the array
ImportedId(elements, i) == ImportRecord(ImportDefaulted(elements[i], i - 1)).id

\* the table holds one record per element, each with its element's data
\* (the id the import gave it included)
HoldsEveryElement(tn, elements) ==
    /\ Cardinality(ListedIds(tn)) = Len(elements)
    /\ \A i \in 1..Len(elements) :
           QE_find_by_id(Here, QUser, QDatabase, tn, ImportedId(elements, i)).found
               = Loaded(ImportRecord(ImportDefaulted(elements[i], i - 1)))

ImportedArray ==
    /\ last.op = "import"
    /\ last.ret
    /\ last.lenBefore = 0
    /\ last.data.t = "list"

\* C23: after a successful import of an array of n objects into an empty
\* table the table holds n records, one per element, each with its
\* element's data; an element without id has the id index + 1
ImportHoldsEveryElement == ImportedArray => HoldsEveryElement(last.table, last.data.kids)

\* the ids of the elements are pairwise different and none is 'metadata'
ImportedIdsApart(elements) ==
    /\ \A i, j \in 1..Len(elements) :
           ImportedId(elements, i) = ImportedId(elements, j) => i = j
    /\ \A i \in 1..Len(elements) : ImportedId(elements, i) # S_metadata

\* what the code does: one record per element when the ids, defaulted ones
\* included, do not meet
ImportApartHoldsEveryElement ==
    (ImportedArray /\ ImportedIdsApart(last.data.kids)) =>
        HoldsEveryElement(last.table, last.data.kids)

\* two elements met on one id and the import still returned True
ImportLostAnElement ==
    /\ ImportedArray
    /\ last.data.kids = <<ElementTwo, ElementPlain>>
    /\ Cardinality(ListedIds(last.table)) = 1

(***************************************************************************)
(* SpecExec: FunctionExecutor (nlp_interface/executor.py) over one engine. *)
(* The executor is built with no confirmation callback, with one that      *)
(* accepts or with one that refuses; execute is called with the name of a  *)
(* function and its arguments.                                             *)
(***************************************************************************)
Callbacks == {"none", "accept", "refuse"}

\* self.sensitive_operations; DatabaseToolRegistry.get_sensitive_operations
sensitive_operations == {"update", "delete"}

\* the names execute is called with; "drop" has no _execute_ method
FunctionNames == {"insert", "find_by_id", "update", "delete", "drop"}

\* self.confirmation_callback(function_name, arguments)
confirmation_callback(callback, function_name, arguments) == callback = "accept"

\* the dictionary execute returns, with the disk the call leaves; reached
\* tells that an _execute_ method ran, asked that the callback was called
Reply(D, success, confirmation_required, reached, asked, value) ==
    [dirs |-> D.dirs, files |-> D.files, success |-> success,
     confirmation_required |-> confirmation_required, reached |-> reached,
     asked |-> asked, result |-> value]

\* {"success": True, "result": result} for an engine call that returns a bool
Succeeded(out, asked) == Reply(out, TRUE, FALSE, TRUE, asked, out.ret)

\* {"success": True, "result": result} of _execute_find_by_id
SucceededFound(out, asked) == Reply(out, TRUE, FALSE, TRUE, asked, out.found.k = "record")

\* getattr(self, f"_execute_{function_name}", None) and the call of the
\* method found; arguments are [table_name, record_id, data]
FE_method(D, function_name, arguments, asked) ==
    CASE function_name = "insert" ->
            Succeeded(QE_insert(D, QUser, QDatabase, arguments.table_name,
                                Record(arguments.record_id, arguments.data)), asked)
      [] function_name = "find_by_id" ->
            SucceededFound(QE_find_by_id(D, QUser, QDatabase, arguments.table_name,
                                         arguments.record_id), asked)
      [] function_name = "update" ->
            Succeeded(QE_update(D, QUser, QDatabase, arguments.table_name,
                                Record(arguments.record_id, arguments.data)), asked)
      [] function_name = "delete" ->
            Succeeded(QE_delete(D, QUser, QDatabase, arguments.table_name,
                                arguments.record_id), asked)
      [] OTHER -> Reply(D, FALSE, FALSE, FALSE, asked, FALSE)

\* an execute that asks for no confirmation
FE_execute_unguarded(D, callback, function_name, arguments) ==
    FE_method(D, function_name, arguments, FALSE)

\* FunctionExecutor.execute
FE_execute(D, callback, function_name, arguments) ==
    IF function_name \in sensitive_operations
    THEN IF callback # "none"
         THEN IF ~confirmation_callback(callback, function_name, arguments)
              THEN Reply(D, FALSE, TRUE, FALSE, TRUE, FALSE)
              ELSE FE_method(D, function_name, arguments, TRUE)
         ELSE Reply(D, FALSE, TRUE, FALSE, FALSE, FALSE)
    ELSE FE_method(D, function_name, arguments, FALSE)

NoReply ==
    [name |-> "none", success |-> FALSE, confirmation_required |-> FALSE, reached |-> FALSE,
     asked |-> FALSE, result |-> FALSE, unchanged |-> TRUE, stored |-> FALSE]

ExecInit ==
    /\ sanIn = <<>>
    /\ sanOut = NotYet
    /\ sanTwice = NotYet
    /\ sanPc = "off"
    /\ dirs = QE_init(Disk({<<>>}, <<>>), QUser, QDatabase).dirs
    /\ files = QE_init(Disk({<<>>}, <<>>), QUser, QDatabase).files
    /\ locks = <<>>
    /\ pc = <<>>
    /\ op = <<>>
    /\ result = <<>>
    /\ completed = <<>>
    /\ last = <<>>
    /\ expect = <<>>
    /\ fresh = <<>>
    /\ gone = {}
    /\ raw = <<>>
    /\ built = <<>>
    /\ opsIn = <<>>
    /\ opsOut = <<>>
    /\ heap = <<>>
    /\ chain = <<>>
    /\ jsonIn = <<>>
    /\ jsonOut = <<>>
    /\ executor \in [callback : Callbacks]
    /\ reply = NoReply
    /\ calls = <<>>

ExecuteCall(function_name, arguments, out) ==
    /\ SetDisk(out)
    /\ reply' = [name |-> function_name, success |-> out.success,
                 confirmation_required |-> out.confirmation_required,
                 reached |-> out.reached, asked |-> out.asked, result |-> out.result,
                 unchanged |-> (dirs' = dirs /\ files' = files),
                 stored |-> ListedIds(arguments.table_name) # {}]
    /\ UNCHANGED <<sanVars, threadVars, dbVars, pathVars, opsVars, chainVars, codecVars,
                   executor, raceVars>>

\* executor.execute(function_name, arguments)
Execute ==
    \E function_name \in FunctionNames, tn \in TableNames, rid \in TbRecordIds, data \in DbData :
        ExecuteCall(function_name, [table_name |-> tn, record_id |-> rid, data |-> data],
                    FE_execute(Here, executor.callback, function_name,
                               [table_name |-> tn, record_id |-> rid, data |-> data]))

ExecNext == Execute

SpecExec == ExecInit /\ [][ExecNext]_vars

\* C26: a sensitive operation (update, delete) reaches the engine only when
\* a confirmation callback exists and returned true; with no callback, or a
\* callback that returns false, execute returns success = false with
\* confirmation_required = true and the store is unchanged; the other
\* operations run without the callback being asked
SensitiveNeedsConfirmation ==
    /\ (reply.name \in sensitive_operations /\ reply.reached) =>
           (executor.callback = "accept" /\ reply.asked)
    /\ (reply.name \in sensitive_operations /\ executor.callback # "accept") =>
           (~reply.success /\ reply.confirmation_required /\ reply.unchanged /\ ~reply.reached)
    /\ reply.name \in {"insert", "find_by_id"} =>
           (reply.reached /\ ~reply.asked /\ reply.success /\ ~reply.confirmation_required)

\* a delete of a stored record was refused by the callback
SensitiveRefusedWitness ==
    /\ reply.name = "delete"
    /\ executor.callback = "refuse"
    /\ reply.stored
    /\ reply.asked
    /\ reply.confirmation_required

\* a confirmed delete reached the engine and removed the record
SensitiveConfirmedReached ==
    /\ reply.name = "delete"
    /\ executor.callback = "accept"
    /\ reply.stored
    /\ reply.reached
    /\ ~reply.unchanged

(***************************************************************************)
(* SpecRace: two threads, each inside one update or delete of the engine.  *)
(* A call is two steps: the lookup of the table and of the record          *)
(* (get_table_operations, find_by_id), then the write (save_record or      *)
(* delete_record).  Every FileSystem call inside a step holds the lock of  *)
(* its path from start to end and no lock is held between the steps, so    *)
(* the steps of the two threads interleave freely.                         *)
(***************************************************************************)
RaceThreads == {"one", "two"}

RaceIds == {<<"r">>, <<"s">>}

RaceCall(name, rid, data) ==
    [name |-> name, id |-> rid, data |-> data, pc |-> "start", ret |-> FALSE]

RaceCalls ==
    {RaceCall("update", rid, data) : rid \in RaceIds, data \in DbData}
    \cup {RaceCall("delete", rid, JNull) : rid \in RaceIds}

\* the table t with the record r, and with or without the record s
RaceDiskOne == QE_insert(QE_init(Disk({<<>>}, <<>>), QUser, QDatabase), QUser, QDatabase,
                         <<"t">>, Record(<<"r">>, DataA))
RaceDiskTwo == QE_insert(RaceDiskOne, QUser, QDatabase, <<"t">>, Record(<<"s">>, DataA))
RaceDisks == {Disk(RaceDiskOne.dirs, RaceDiskOne.files), Disk(RaceDiskTwo.dirs, RaceDiskTwo.files)}

RaceInit ==
    /\ sanIn = <<>>
    /\ sanOut = NotYet
    /\ sanTwice = NotYet
    /\ sanPc = "off"
    /\ \E D \in RaceDisks : dirs = D.dirs /\ files = D.files
    /\ locks = <<>>
    /\ pc = <<>>
    /\ op = <<>>
    /\ result = <<>>
    /\ completed = <<>>
    /\ last = <<>>
    /\ expect = <<>>
    /\ fresh = <<>>
    /\ gone = {}
    /\ raw = <<>>
    /\ built = <<>>
    /\ opsIn = <<>>
    /\ opsOut = <<>>
    /\ heap = <<>>
    /\ chain = <<>>
    /\ jsonIn = <<>>
    /\ jsonOut = <<>>
    /\ executor = <<>>
    /\ reply = <<>>
    /\ calls \in [RaceThreads -> RaceCalls]

RaceFrame ==
    UNCHANGED <<sanVars, threadVars, dbVars, pathVars, opsVars, chainVars, codecVars, execVars>>

\* update and delete up to the test of existing: operations =
\* get_table_operations(table_name); existing = operations.find_by_id(id);
\* the call returns False when there is no table or no record
Looked(t, ops) ==
    /\ SetDisk(ops)
    /\ calls' = [calls EXCEPT ![t].pc =
                     IF ops.raised \/ ~ops.some THEN "done"
                     ELSE IF QO_find_by_id(ops, QUser, QDatabase, Table(<<"t">>),
                                           calls[t].id).k # "record"
                     THEN "done" ELSE "checked"]
    /\ RaceFrame

Lookup(t) ==
    /\ calls[t].pc = "start"
    /\ Looked(t, QE_get_table_operations(Here, QUser, QDatabase, <<"t">>))

\* what the try/except of the call returns after the write
Wrote(t, out) ==
    /\ SetDisk(out)
    /\ calls' = [calls EXCEPT ![t].pc = "done", ![t].ret = ~out.raised]
    /\ RaceFrame

\* update: operations.table_storage.save_record(record); return True
UpdateSave(t) ==
    /\ calls[t].pc = "checked"
    /\ calls[t].name = "update"
    /\ Wrote(t, TS_save_record(Here, QUser, QDatabase, Table(<<"t">>),
                               Record(calls[t].id, calls[t].data)))

\* delete: operations.table_storage.delete_record(record_id); return True
DeleteRemove(t) ==
    /\ calls[t].pc = "checked"
    /\ calls[t].name = "delete"
    /\ Wrote(t, TS_delete_record(Here, QUser, QDatabase, Table(<<"t">>), calls[t].id))

RaceNext == \E t \in RaceThreads : Lookup(t) \/ UpdateSave(t) \/ DeleteRemove(t)

SpecRace == RaceInit /\ [][RaceNext]_vars

\* both calls have finished, one an update and the other a delete of the
\* same id that returned True
UpdateAndDeleteDone(u, d) ==
    /\ calls[u].name = "update" /\ calls[u].pc = "done"
    /\ calls[d].name = "delete" /\ calls[d].pc = "done" /\ calls[d].ret
    /\ calls[u].id = calls[d].id

\* C28: update never creates a record: when an update and a delete of the
\* same id have both finished and the delete returned true, the record is
\* absent (find_by_id returns None), in every interleaving
UpdateNeverRevives ==
    \A u, d \in RaceThreads :
        UpdateAndDeleteDone(u, d) =>
            QE_find_by_id(Here, QUser, QDatabase, <<"t">>, calls[d].id).found = NotFound

\* what the code does: the record is back only where the update returned
\* True, and then with the data of the update
UpdateRevivesOnlyOwnData ==
    \A u, d \in RaceThreads :
        UpdateAndDeleteDone(u, d) =>
            \/ QE_find_by_id(Here, QUser, QDatabase, <<"t">>, calls[d].id).found = NotFound
            \/ /\ calls[u].ret
               /\ QE_find_by_id(Here, QUser, QDatabase, <<"t">>, calls[d].id).found
                      = Loaded(Record(calls[u].id, calls[u].data))

(***************************************************************************)
(* Properties of the database and its tables (SpecTables)                  *)
(***************************************************************************)
DbMetadataPath == DS_base_path(QUser, QDatabase) \o <<"/">> \o S_metadata_json

\* the names in the `tables` list of the database metadata
MetadataTables ==
    {DS_metadata_tables(Here, QUser, QDatabase)[i].s :
        i \in 1..Len(DS_metadata_tables(Here, QUser, QDatabase))}

\* C14: after any sequence of engine construction, create_table,
\* delete_table and auto-creating insert, the database directory has a
\* metadata.json whose `tables` list names exactly the existing tables, and
\* len() of the database handle is the number of tables list_tables() gives
DbMetadataListsTables ==
    /\ IsFile(files, Resolve(DbMetadataPath))
    /\ MetadataTables = QE_list_tables(Here, QUser, QDatabase)
    /\ DS_len(Here, QUser, QDatabase) = Cardinality(QE_list_tables(Here, QUser, QDatabase))

\* what the code keeps instead: the handle has length 0 whatever exists
DbLenIsZero == DS_len(Here, QUser, QDatabase) = 0

\* project with a condition whose operator is unknown does not raise: it
\* drops every record
BadConditionDropsAll ==
    (last.op = "project" /\ S_like \in last.ids /\ last.existed) =>
        (~last.raised /\ last.rows = <<>>)

QueryOps == {"find_by_id", "find_all", "filter", "project", "sort", "join", "group_by",
             "update", "delete"}

\* C15: a query on a table that does not exist does not raise, returns
\* None (find_by_id), an empty list (find_all, filter, project, sort, join),
\* an empty map (group_by) or False (update, delete), and leaves the
\* directories and files as they were
MissingTableQueries ==
    (last.op \in QueryOps /\ ~last.existed) =>
        /\ ~last.raised
        /\ last.unchanged
        /\ ~TableExists(Here, last.table) \/ last.op = "join"
        /\ last.op = "find_by_id" => last.found = NotFound
        /\ last.op = "find_all" => last.ids = {}
        /\ last.op \in {"filter", "project", "sort", "join", "group_by"} => last.rows = <<>>
        /\ last.op \in {"update", "delete"} => ~last.ret

\* a join of a filled table with a table that does not exist has returned
MissingTableQueriesWitness ==
    /\ last.op = "join"
    /\ ~last.existed
    /\ last.table = <<"t">>
    /\ ListedIds(<<"t">>) = {<<"r">>}
    /\ ~TableExists(Here, <<"u">>)
    /\ last.rows = <<>>

(***************************************************************************)
(* Properties of the query operations (SpecOps)                            *)
(***************************************************************************)
\* the field path leads to no value in the document: a key of the path is
\* absent, or a part before the last is not a dict
RECURSIVE PartsMissing(_, _, _)
PartsMissing(current, parts, i) ==
    IF i > Len(parts) THEN FALSE
    ELSE IF current.t = "dict" /\ HasKey(current, parts[i])
    THEN PartsMissing(DictItem(current, parts[i]), parts, i + 1)
    ELSE TRUE

FieldMissing(data, field_path) == PartsMissing(data, SplitDots(field_path, 1, <<>>, <<>>), 1)

AllMissing(records, field_path) ==
    /\ records # <<>>
    /\ \A i \in 1..Len(records) : FieldMissing(records[i].data, field_path)

\* C20: a record whose field path is missing is never selected by
\* filter_by_field under eq, gt, gte, lt, lte or contains, whatever the
\* comparison value, and filtering it never raises: a list of such records
\* filters to the empty list
MissingFieldNeverSelected ==
    (/\ opsOut.op = "filter_by_field"
     /\ opsOut.operator \in {S_eq, S_gt, S_gte, S_lt, S_lte, S_contains}
     /\ AllMissing(opsIn.records, opsIn.field)) =>
        (~opsOut.raised /\ opsOut.rows = <<>>)

\* C21: a malformed query argument raises instead of giving a result:
\* filter_by_field with an operator it does not know and aggregate with an
\* operation it does not know raise for every record list, the empty list
\* and lists of records lacking the field included
BadArgumentRaises ==
    /\ (opsOut.op = "filter_by_field" /\ opsOut.operator = S_like) => opsOut.raised
    /\ (opsOut.op = "aggregate" /\ opsOut.operator = S_median) => opsOut.raised

\* what the code does: the bad argument raises only once a record, or a
\* value that is not None, reaches the comparison
BadArgumentRaisesWhenReached ==
    /\ (opsOut.op = "filter_by_field" /\ opsOut.operator = S_like) =>
           (opsOut.raised <=> opsIn.records # <<>>)
    /\ (opsOut.op = "aggregate" /\ opsOut.operator = S_median) =>
           (opsOut.raised <=> FieldValues(opsIn.records, opsIn.field, 1) # <<>>)

\* the ids of the records an operation returned
IdsOf(rows) == {rows[i].id : i \in 1..Len(rows)}

\* the records filter_by_field selects from the input under an operator
Selected(operator) ==
    IdsOf(filter_by_field(opsIn.records, opsIn.field, opsIn.value, operator).rows)

\* a numeric field: every record holds a number in it, or None, or lacks it
NumericField(records, field_path) ==
    \A i \in 1..Len(records) :
        \/ IsNumber(get_nested_field(records[i].data, field_path))
        \/ get_nested_field(records[i].data, field_path) = JNull

\* every record holds a number that is ordered against other numbers
AllOrderedNumbers(records, field_path) ==
    \A i \in 1..Len(records) :
        /\ IsNumber(get_nested_field(records[i].data, field_path))
        /\ ~IsNaN(get_nested_field(records[i].data, field_path))

\* the three relations of C18 on the result of one call
FilterRelations ==
    /\ ~opsOut.raised
    /\ opsOut.operator = S_gte => IdsOf(opsOut.rows) = Selected(S_gt) \cup Selected(S_eq)
    /\ opsOut.operator = S_ne => IdsOf(opsOut.rows) = IdsOf(opsIn.records) \ Selected(S_eq)
    /\ \A i \in 1..Len(opsIn.records) :
           IsNumber(get_nested_field(opsIn.records[i].data, opsIn.field)) =>
               Cardinality({o \in {S_lt, S_eq, S_gt} : opsIn.records[i].id \in Selected(o)}) = 1

\* C18: for every record list, numeric field and numeric value, gte selects
\* exactly the union of gt and eq, ne exactly the complement of eq, and a
\* record holding a non-null number is selected by exactly one of lt, eq, gt
FilterAlgebra ==
    (/\ opsOut.op = "filter_by_field"
     /\ opsOut.operator \in {S_eq, S_ne, S_gt, S_gte, S_lt, S_lte}
     /\ IsNumber(opsIn.value)
     /\ NumericField(opsIn.records, opsIn.field)) => FilterRelations

\* the relations on lists in which every record holds an ordered number
FilterAlgebraOrdered ==
    (/\ opsOut.op = "filter_by_field"
     /\ opsOut.operator \in {S_eq, S_ne, S_gt, S_gte, S_lt, S_lte}
     /\ IsNumber(opsIn.value)
     /\ AllOrderedNumbers(opsIn.records, opsIn.field)) => FilterRelations

\* the sort field of a record of the current input
SortValue(record) == get_nested_field(record.data, opsIn.field)

\* where a returned record stood in the input
InputIndex(record) == CHOOSE i \in 1..Len(opsIn.records) : opsIn.records[i] = record

\* the present values of the field can be ordered against each other
Sortable(records, field_path) ==
    \A i, j \in 1..Len(records) :
        LET a == get_nested_field(records[i].data, field_path)
            b == get_nested_field(records[j].data, field_path)
        IN  (a # JNull /\ b # JNull) => PyOrder(a, b) # "raise"

IsPermutation(rows, records) ==
    /\ Len(rows) = Len(records)
    /\ \A i \in 1..Len(records) : \E k \in 1..Len(rows) : rows[k] = records[i]

\* rows[k] may stand before rows[m] in a stable sort with the None and
\* absent values last
InSortOrder(x, y, ascending) ==
    /\ SortValue(x) = JNull => SortValue(y) = JNull
    /\ (SortValue(x) # JNull /\ SortValue(y) # JNull) =>
           PyOrder(SortValue(x), SortValue(y)) \in
               (IF ascending THEN {"lt", "eq"} ELSE {"gt", "eq"})
    /\ (PyEq(SortValue(x), SortValue(y)) \/ (SortValue(x) = JNull /\ SortValue(y) = JNull)) =>
           InputIndex(x) < InputIndex(y)

\* C19: sort returns a permutation of its input with the present values in
\* the requested order, equal values in input order and every record whose
\* field is absent or None after all present ones, ascending and descending
SortStableNullsLast ==
    (opsOut.op = "sort" /\ Sortable(opsIn.records, opsIn.field)) =>
        /\ ~opsOut.raised
        /\ IsPermutation(opsOut.rows, opsIn.records)
        /\ \A k, m \in 1..Len(opsOut.rows) :
               k < m => InSortOrder(opsOut.rows[k], opsOut.rows[m], opsOut.ascending)

\* the same for ascending sorts only
SortAscendingNullsLast ==
    (opsOut.op = "sort" /\ opsOut.ascending /\ Sortable(opsIn.records, opsIn.field)) =>
        /\ ~opsOut.raised
        /\ IsPermutation(opsOut.rows, opsIn.records)
        /\ \A k, m \in 1..Len(opsOut.rows) :
               k < m => InSortOrder(opsOut.rows[k], opsOut.rows[m], TRUE)

\* the buckets that hold a record
BucketsOf(groups, record) ==
    {g \in 1..Len(groups) : \E k \in 1..Len(groups[g].rows) : groups[g].rows[k] = record}

RECURSIVE SumOfSizes(_, _)
SumOfSizes(groups, g) ==
    IF g > Len(groups) THEN 0 ELSE Len(groups[g].rows) + SumOfSizes(groups, g + 1)

\* the buckets partition the input by field value
IsPartition(groups, records, field_path) ==
    /\ \A i \in 1..Len(records) :
           /\ Cardinality(BucketsOf(groups, records[i])) = 1
           /\ \A g \in BucketsOf(groups, records[i]) :
                  PyEq(groups[g].key, get_nested_field(records[i].data, field_path))
    /\ \A g \in 1..Len(groups) : groups[g].rows # <<>>
    /\ SumOfSizes(groups, 1) = Len(records)

AllHashable(records, field_path) ==
    \A i \in 1..Len(records) : Hashable(get_nested_field(records[i].data, field_path))

\* C17: group_by partitions its input: every record is in exactly one
\* bucket, the one keyed by its field value, no bucket is empty and the
\* bucket sizes sum to the number of records
GroupByPartitions ==
    opsOut.op = "group_by" =>
        (~opsOut.raised /\ IsPartition(opsOut.groups, opsIn.records, opsIn.field))

\* the same for records whose field values can be keys of a dict
GroupByPartitionsHashable ==
    (opsOut.op = "group_by" /\ AllHashable(opsIn.records, opsIn.field)) =>
        (~opsOut.raised /\ IsPartition(opsOut.groups, opsIn.records, opsIn.field))

\* the rows of one left record by comparing it with every right record
RECURSIVE MatchRows(_, _, _, _, _, _, _)
MatchRows(left_record, left_value, right_records, right_field, left_prefix, right_prefix, k) ==
    IF k > Len(right_records) THEN <<>>
    ELSE (IF PyEq(left_value, get_nested_field(right_records[k].data, right_field))
          THEN <<Joined(left_record, right_records[k], left_prefix, right_prefix)>>
          ELSE <<>>)
         \o MatchRows(left_record, left_value, right_records, right_field, left_prefix,
                      right_prefix, k + 1)

\* one row per pair (l, r) with equal join values, by left and then by
\* right record; with keep_unmatched, one row of left fields for a left
\* record without a pair
RECURSIVE PairRows(_, _, _, _, _, _)
PairRows(left_records, right_records, left_field, right_field, keep_unmatched, i) ==
    IF i > Len(left_records) THEN <<>>
    ELSE LET matched == MatchRows(left_records[i],
                                  get_nested_field(left_records[i].data, left_field),
                                  right_records, right_field,
                                  opsIn.prefixes[1], opsIn.prefixes[2], 1)
         IN  (IF matched = <<>> /\ keep_unmatched
              THEN <<JoinedLeft(left_records[i], opsIn.prefixes[1])>>
              ELSE matched)
             \o PairRows(left_records, right_records, left_field, right_field,
                         keep_unmatched, i + 1)

JoinIsPairs ==
    /\ ~opsOut.raised
    /\ opsOut.rows = PairRows(opsIn.records, opsIn.right, opsIn.field, opsIn.other,
                              opsOut.op = "left_join", 1)
    /\ opsOut.op = "left_join" => Len(opsOut.rows) >= Len(opsIn.records)

\* C16: inner_join returns exactly one row per pair (l, r) with
\* l[left_field] == r[right_field], by left and then by right record;
\* left_join returns those rows and one row of left fields for each left
\* record without a match, so every left record gives at least one row
JoinCorrect == opsOut.op \in {"inner_join", "left_join"} => JoinIsPairs

\* the same for records whose join values can be keys of a dict
JoinCorrectHashable ==
    (/\ opsOut.op \in {"inner_join", "left_join"}
     /\ AllHashable(opsIn.records, opsIn.field)
     /\ AllHashable(opsIn.right, opsIn.other)) => JoinIsPairs

\* descending sorts of lists without None and absent values
SortDescendingPresent ==
    (/\ opsOut.op = "sort"
     /\ ~opsOut.ascending
     /\ Sortable(opsIn.records, opsIn.field)
     /\ \A i \in 1..Len(opsIn.records) : SortValue(opsIn.records[i]) # JNull) =>
        /\ ~opsOut.raised
        /\ IsPermutation(opsOut.rows, opsIn.records)
        /\ \A k, m \in 1..Len(opsOut.rows) :
               k < m => InSortOrder(opsOut.rows[k], opsOut.rows[m], FALSE)

(***************************************************************************)
(* Properties of the engine and the storage hierarchy (SpecDB, SpecPath)   *)
(***************************************************************************)
LastKey == Key(last.table, last.id)

\* the ids written to a table and not deleted since
ExpectedIds(tn) == {key[2] : key \in {k \in DOMAIN expect : k[1] = Table(tn).name}}

\* list_records, load_all_records and find_all name the ids in ids, and
\* find_by_id gives for each of them the data written last, None for the
\* other ids
ReadsAsMap(tn, ids) ==
    /\ ListedIds(tn) = ids
    /\ TableExists(Here, tn) =>
           /\ DOMAIN TS_load_all_records(Here, QUser, QDatabase, Table(tn)) = ids
           /\ DOMAIN QE_find_all(Here, QUser, QDatabase, tn).all = ids
    /\ \A rid \in ids :
           QE_find_by_id(Here, QUser, QDatabase, tn, rid).found
               = Loaded(Record(rid, expect[Key(tn, rid)]))

\* C27: a table is a map from record id to data: after any sequence of
\* successful insert, update and delete calls the ids listed are the ids
\* inserted and not deleted since, find_by_id(i) returns the data written
\* last under i, and a call on id i changes nothing under another id j
TableIsMap ==
    \A tn \in DbTableNames :
        /\ ReadsAsMap(tn, ExpectedIds(tn))
        /\ \A rid \in MapRecordIds \ ExpectedIds(tn) :
               QE_find_by_id(Here, QUser, QDatabase, tn, rid).found = NotFound

\* what the code does: the table is a map on the ids other than 'metadata'
TableIsMapButMetadata ==
    \A tn \in DbTableNames :
        /\ ReadsAsMap(tn, ExpectedIds(tn) \ {S_metadata})
        /\ \A rid \in MapRecordIds \ (ExpectedIds(tn) \cup {S_metadata}) :
               QE_find_by_id(Here, QUser, QDatabase, tn, rid).found = NotFound

\* C1: once insert(table, Record(id, data)) has returned true, find_by_id(table, id)
\* returns a record whose data equals the inserted data, until a later
\* insert, update or delete targets that id.
InsertThenFind ==
    (last.op = "find_by_id" /\ LastKey \in DOMAIN fresh)
        => (last.found.k = "record" /\ last.found.data = fresh[LastKey])

\* C4: update(table, record) returns false and leaves the table unchanged
\* whenever the table does not exist or no record with record.id is stored.
UpdateOfMissingIsRefused ==
    (last.op = "update" /\ (~last.existed \/ ~last.stored))
        => (~last.ret /\ last.unchanged)

\* C5: delete(table, id) on an id that is not stored, or on a missing table,
\* returns false and leaves the store unchanged; on a stored id it returns
\* true, and find_by_id(table, id) returns None from then on until the id is
\* inserted again.
DeleteContract ==
    /\ (last.op = "delete" /\ (~last.existed \/ ~last.stored))
           => (~last.ret /\ last.unchanged)
    /\ (last.op = "delete" /\ last.existed /\ last.stored) => last.ret
    /\ (last.op = "find_by_id" /\ LastKey \in gone) => last.found = NotFound

\* C6: saving a record whose id is already stored succeeds, replaces the
\* stored data entirely and keeps the number of records; a later load
\* returns the data of the most recent save.
SaveIsUpsert ==
    /\ (last.op \in {"insert", "save_record"} /\ last.stored)
           => /\ last.ret
              /\ last.lenAfter = last.lenBefore
              /\ last.readback.k = "record"
              /\ last.readback.data = last.data
    /\ (last.op = "load_record" /\ LastKey \in DOMAIN expect)
           => (last.found.k = "record" /\ last.found.data = expect[LastKey])

\* the directories directly below the database directory
TableDirs ==
    LET db == Resolve(DS_base_path(QUser, QDatabase))
    IN  {d \in dirs : Len(d) = Len(db) + 1 /\ IsPrefixPath(db, d)}

\* C7: every existing table directory contains its metadata.json, and
\* list_records, load_all_records, len() and find_all never report
\* metadata.json as a record.
TableDirHasMetadata ==
    /\ \A d \in TableDirs : IsFile(files, Append(d, S_metadata_json))
    /\ (last.op \in {"list_records", "find_all"}) => S_metadata \notin last.ids

\* C13: insert into a table that does not exist yet returns true and leaves
\* the table directory with a metadata.json in it; afterwards list_tables
\* lists the table and find_by_id returns the inserted record.
InsertCreatesTable ==
    (last.op = "insert" /\ ~last.existed) =>
        /\ last.ret
        /\ TableExists(Here, last.table)
        /\ IsFile(files, Resolve(DS_get_table_metadata_path(QUser, QDatabase,
                                                            Table(last.table))))
        /\ Table(last.table).name \in QE_list_tables(Here, QUser, QDatabase)
        /\ last.readback = Loaded(Record(last.id, last.data))

\* the last call was an insert of a record with a plain id into a table that
\* did not exist, and the table now holds its metadata and the record
InsertCreatesTableWitness ==
    /\ last.op = "insert"
    /\ ~last.existed
    /\ last.id = <<"r">>
    /\ last.ret
    /\ TS_list_records(Here, QUser, QDatabase, Table(last.table)) = {<<"r">>}
    /\ FS_read_file(Here, DS_get_table_metadata_path(QUser, QDatabase, Table(last.table)))
           = Text(JsonText[TableMetadata(Table(last.table))])

\* the segments of a built path after base_dir
BuiltSegments ==
    IF Prefix(built.path, Len(base_dir) + 1) = base_dir \o <<"/">>
    THEN Segments(SubSeq(built.path, Len(base_dir) + 2, Len(built.path)))
    ELSE <<>>

\* C8: every path built for a user, database, table or record lies strictly
\* below base_dir at depth 1, 2, 3 and 4: each segment is non-empty, holds
\* no '/', and is neither '.' nor '..'.
PathsStayBelowBase ==
    built.kind # "none" =>
        /\ Len(BuiltSegments) = built.depth
        /\ \A i \in 1..Len(BuiltSegments) :
               /\ BuiltSegments[i] # <<>>
               /\ \A j \in 1..Len(BuiltSegments[i]) : BuiltSegments[i][j] # "/"
               /\ BuiltSegments[i] \notin {<<".">>, <<".", ".">>}

====
